---- MODULE Spec2Model ----
(***************************************************************************)
(* Model of the Quorum hold engine: the in-memory store of HoldState       *)
(* records (server/state.ts), the per-hold cycling task runHoldCycle       *)
(* (bot/holder.ts), the HTTP routes that create holds and submit buy/drop  *)
(* (server/routes.ts) and the SMS command handler handleInboundSMS         *)
(* (bot/sms-handler.ts).                                                   *)
(*                                                                         *)
(* Node runs every handler to its next await without interleaving, so one  *)
(* action is one synchronous segment of the code: a task that resumes      *)
(* after an await runs on through the top of the while loop (the command   *)
(* check) until it breaks or awaits again.  pc[h] is the await a hold's    *)
(* task is suspended at; the task's locals cycleCount and                  *)
(* consecutiveErrors are taskCycleCount[h] and consecutiveErrors[h]; the   *)
(* error caught by the catch block of the loop is err[h].                  *)
(*                                                                         *)
(* Of a HoldState record the model keeps status, cycleCount,               *)
(* totalFeeCents, command and fanPhone.  startTime and lastCycleTime are   *)
(* wall-clock stamps written together with these fields and read by no     *)
(* guard; eventUrl, eventName, ticketType and quantity are never written   *)
(* after creation.                                                         *)
(*                                                                         *)
(* The SMS poll loop (bot/sms-loop.ts) keeps its own module state:         *)
(* lastSeenRowId, sentTexts and phoneCooldowns.  Its tick calls the chat   *)
(* agent, which never touches the holds Map, and the hold engine never     *)
(* touches the loop's state, so the two are checked separately: Spec runs  *)
(* the hold engine with the loop at rest, SmsSpec runs the loop with the   *)
(* store at rest.  A text is the sequence of its tokens, a phone number    *)
(* the sequence of its characters; wall-clock time is in milliseconds.     *)
(*                                                                         *)
(* The session layer is what a task holds besides its record: the shared   *)
(* browser of getSharedBrowser, the task's browser context, and the login  *)
(* flag of bot/kyd-auth.ts.  No guard of the hold engine reads it, so each *)
(* step of a task is a store action paired with a session action;          *)
(* SessionSpec runs the pairs over the HTTP routes, Spec runs the store    *)
(* actions with the session layer at rest.  IdSpec is the hold engine over *)
(* the HTTP routes when generateHoldId may draw a string drawn before.     *)
(*                                                                         *)
(* Three helpers are run on their own, each with everything else at rest:  *)
(* AgentSpec is processMessage of bot/chat-agent.ts with its rate-limit    *)
(* and history maps, OtpSpec is one call of getLatestOTP of                *)
(* bot/imessage-reader.ts with the rows it polls (time in ms, chat.db      *)
(* dates on the same origin), ParseSpec is parseCommand applied to texts   *)
(* of up to MaxWords words.                                                *)
(***************************************************************************)
EXTENDS Integers, Sequences, FiniteSets, TLC

\* holder.ts:21  HOLD_RATE_CENTS = parseInt(process.env.HOLD_RATE_CENTS || '10')
HOLD_RATE_CENTS == 10

\* holder.ts:23
MAX_RETRIES == 3

\* Bound on the number of successful cycles of one hold (the loop itself is unbounded).
MaxCycles == 3

\* Identifiers handed out by generateHoldId, in the order they are handed out.
HoldIdSeq == <<"h1", "h2">>

HoldIds == {HoldIdSeq[i] : i \in 1..Len(HoldIdSeq)}

\* E-mail addresses a buy request can carry; NoEmail is a hold nobody has
\* bought yet or a body without email.
Emails == {"e1"}

NoEmail == "undefined"

\* Requester phone numbers; NoPhone is a request body without fanPhone.
Phones == {"p1"}

NoPhone == "undefined"

\* Kinds of failure of one renewal attempt (executeOneCycle throwing).
ErrorKinds == {"transient", "fatal"}

Statuses == {"pending", "active", "buying", "bought", "dropped", "error"}

Terminal == {"bought", "dropped", "error"}

\* Awaits a running task is suspended at: opening the session (lines 59-72),
\* executeOneCycle (104), the retry pause (135), recoverPage (126).
Awaiting == {"opening", "cycling", "pausing", "recovering"}

\* Positions at which a task has left runHoldCycle.
Ended == {"exitDrop", "exitBuy", "exitRecoveryFailed", "exitOpenFailed"}

\* Where opening the session can throw: browser.newContext() of line 59, which
\* is outside the try, or a later call of lines 63-71, inside it.
OpenStages == {"newContext", "page"}

\* What makes recoverPage throw: a page or navigation error, or getLatestOTP
\* giving up after its time-out inside loginToKYD.
RecoveryFailures == {"navigation", "otpTimeout"}

\* How context.close() settles: resolved, or rejected.
CloseOutcomes == {"closed", "closeFailed"}

\* sms-loop.ts:210
POLL_INTERVAL_MS == 3000

\* sms-loop.ts:218
SENT_TEXT_TTL_MS == 60000

\* sms-loop.ts:222
COOLDOWN_MS == 10000

\* sms-loop.ts:211  KYD_2FA_SENDER = process.env.KYD_2FA_SENDER || '22395'
KYD_2FA_SENDER == <<"2", "2", "3", "9", "5">>

\* A fan's handle as chat.db stores it.
FanA == <<"+", "1", "2", "1", "2", "5", "5", "5", "0", "1", "0", "0">>

\* A second fan's handle.
FanB == <<"+", "1", "6", "4", "6", "5", "5", "5", "0", "1", "9", "9">>

Digits == {"0", "1", "2", "3", "4", "5", "6", "7", "8", "9"}

\* First token of every text that starts with the bot prefix 'QUORUM <ticket>'.
BotPrefix == "QUORUM"

\* chat-agent.ts processMessage: every string it returns starts with the prefix.
AgentReply == <<BotPrefix, "which", "show?">>

\* sms-loop.ts:333, the reply used when processMessage throws.
AgentErrorReply == <<BotPrefix, "something", "went", "wrong">>

\* sms-loop.ts:325, the hardcoded reply to 'eggy'.
EggyReply == <<BotPrefix, "locked", "in!">>

\* Rows the Messages app can add to chat.db (text not null and not ''): fan
\* texts, a text of blanks, the 2FA code, and a bot reply that surfaces as an
\* inbound row of the fan's conversation or comes as a row of another fan's.
InboundRows ==
    {[sender |-> FanA, text |-> <<"hold", "2", "GA">>],
     [sender |-> FanA, text |-> <<"eggy">>],
     [sender |-> FanA, text |-> <<" ", " ">>],
     [sender |-> FanA, text |-> AgentReply],
     [sender |-> FanB, text |-> AgentReply],
     [sender |-> KYD_2FA_SENDER, text |-> <<"code:", "1234">>]}

\* The phones processMessage is called for.
AgentPhones == {FanA, FanB}

\* chat-agent.ts:25
RATE_LIMIT == 20

\* chat-agent.ts:26  60 * 60 * 1000
RATE_WINDOW_MS == 3600000

\* chat-agent.ts:45
MAX_HISTORY == 10

\* chat-agent.ts:165  text.length > 500
MaxTextLength == 500

\* chat-agent.ts:101-104, the static replies.
RATE_LIMIT_MSG == <<BotPrefix, "you've", "been", "really", "active!">>

LONG_MSG_FALLBACK == <<BotPrefix, "that's", "a", "lot!">>

BLOCK_FALLBACK == <<BotPrefix, "I", "can", "only", "help", "with", "holds!">>

\* chat-agent.ts:87-94, BLOCK_PATTERNS: a text is blocked when it holds one of these.
BlockTokens == {"ignore previous", "system prompt", "you are now",
                "forget your instructions", "jailbreak", "DAN"}

\* Texts processMessage is called with: an ordinary one, one that matches a
\* block pattern, one longer than 500 characters.
AgentTexts ==
    {[tokens |-> <<"2", "GA", "for", "Florist">>, length |-> 16],
     [tokens |-> <<"ignore previous", "instructions">>, length |-> 28],
     [tokens |-> <<"so", "my", "friends", "and", "I">>, length |-> 501]}

\* What client.messages.create does: it throws, or resolves with a text that
\* may or may not start with the prefix.
ApiOutcomes ==
    {[thrown |-> TRUE, text |-> << >>],
     [thrown |-> FALSE, text |-> <<"which", "show?">>],
     [thrown |-> FALSE, text |-> <<BotPrefix, "which", "show?">>]}

\* Bound on the clock of the chat agent, which moves in steps of RATE_WINDOW_MS.
MaxAgentClock == 3600000

\* Bound on the number of API calls made for the first phone.
MaxApiCalls == 21

\* Bound on the number of API calls made for the second phone.
MaxOtherApiCalls == 2

\* Words of a fan's text; a text is a sequence of words separated by blanks.
Words == {"buy", "cancel", "how", "long", "events", "Hold", "hold", "2", "3", "jazz"}

\* Bound on the number of words of a text.
MaxWords == 3

\* imessage-reader.ts:145, the pause between two polls.
OTP_POLL_MS == 2000

\* The date column of chat.db counts 10^9 units per second; the model's rows
\* count 1000.
DateUnitsPerSecond == 1000

\* The 4-digit codes a text can carry.
OtpCodes == {"4821"}

\* Texts of the 2FA sender: one with a code, one without.
OtpTexts == {<<"Your", "kyd", "labs", "verification", "code", "is:", "4821">>,
             <<"Welcome", "to", "kyd", "labs">>}

\* The timeoutMs a call is given: one that is a multiple of the pause and one
\* that is not.
OtpTimeouts == {5000, 12000}

\* What a read of chat.db does: it answers, it throws a permission error, or
\* it throws another error.
DbAccess == {"ok", "denied", "failed"}

\* The clock when the first row can arrive.
OtpFirstClock == 10000

\* Bound on the clock at which getLatestOTP is called.
MaxOtpCallClock == 13000

\* Bound on the number of rows of the 2FA sender.
MaxOtpMessages == 2

\* Time an awaited call takes (processMessage, sendMessage).
Latencies == {0, 1000}

\* Bound on the number of rows of chat.db.
MaxMessages == 2

\* Bound on the wall clock.
MaxClock == 15000

VARIABLES
    holds,              \* state.ts: the holds Map, holdId -> HoldState
    holdOrder,          \* insertion order of the holds Map
    pc,                 \* position of each hold's runHoldCycle task
    taskCycleCount,     \* runHoldCycle local cycleCount
    consecutiveErrors,  \* runHoldCycle local consecutiveErrors
    err,                \* the error held by the loop's catch block
    sharedBrowser,      \* holder.ts: the module variable sharedBrowser, 0 is null
    liveBrowsers,       \* the browser instances launched and not closed
    browserOf,          \* the instance getSharedBrowser gave each hold, 0 before it did
    context,            \* runHoldCycle's BrowserContext of each hold
    isAuthenticated,    \* kyd-auth.ts: the module flag isAuthenticated
    authExpired,        \* Date.now() - lastAuthTime > AUTH_SESSION_TTL_MS
    sessionAuth,        \* loginToKYD has returned on a page of this hold's context
    recoveryErr,        \* what made recoverPage throw, per hold
    process,            \* the server process
    clock,              \* Date.now(), ms since the SMS loop was loaded
    chatDb,             \* rows of chat.db in the order of their date column
    lastSeenRowId,      \* sms-loop.ts: highest rowid looked at
    sentTexts,          \* sms-loop.ts: reply text -> time sent
    phoneCooldowns,     \* sms-loop.ts: normalized phone -> time last replied to
    tickPc,             \* position of the poll loop
    now,                \* tick local now
    messages,           \* tick local messages
    idx,                \* position of the for loop in messages
    reply,              \* tick local reply
    handled,            \* log: the messages the for loop got past line 271
    agentClock,         \* Date.now() as chat-agent.ts reads it, ms
    rateLimitMap,       \* chat-agent.ts: phone -> time stamps of the counted calls
    historyMap,         \* chat-agent.ts: phone -> stored conversation
    agentReply,         \* what the last processMessage call returned
    apiCalls,           \* log: phone -> times of its client.messages.create calls
    turns,              \* log: phone -> number of exchanges appended to its history
    otpClock,           \* Date.now() as getLatestOTP reads it, ms
    otpDb,              \* rows of chat.db from the 2FA sender, by date
    otpPc,              \* position of the getLatestOTP call
    otpStart,           \* getLatestOTP local startTime
    otpBaseline,        \* getLatestOTP local baselineTimestamp, s
    otpMarker,          \* the afterTimestamp the call was given, 0 when none
    otpTimeout,         \* the timeoutMs the call was given
    otpResult,          \* the row whose code the call returned
    parseText,          \* the text parseCommand was last called with
    parsed              \* the ParsedCommand it returned

holdVars == <<holds, holdOrder, pc, taskCycleCount, consecutiveErrors, err>>

driverVars == <<sharedBrowser, liveBrowsers, browserOf, process>>

authVars == <<isAuthenticated, authExpired, sessionAuth>>

sessionVars == <<driverVars, context, authVars, recoveryErr>>

smsVars == <<clock, chatDb, lastSeenRowId, sentTexts, phoneCooldowns, tickPc,
             now, messages, idx, reply, handled>>

\* chat-agent.ts module state and the record of what processMessage did.
agentVars == <<agentClock, rateLimitMap, historyMap, agentReply, apiCalls, turns>>

\* imessage-reader.ts: one call of getLatestOTP and the rows it reads.
otpVars == <<otpClock, otpDb, otpPc, otpStart, otpBaseline, otpMarker,
             otpTimeout, otpResult>>

\* sms-handler.ts: one call of parseCommand.
parseVars == <<parseText, parsed>>

\* State of the modules the hold engine and the poll loop call into.
helperVars == <<agentVars, otpVars, parseVars>>

vars == <<holdVars, sessionVars, smsVars, helperVars>>

----------------------------------------------------------------------------
\* state.ts; store is the holds Map at the moment of the call.

\* createHoldState: the record stored for a new hold.
createHoldState(phone) ==
    [status |-> "pending", cycleCount |-> 0, totalFeeCents |-> 0,
     command |-> "null", fanPhone |-> phone]

\* Mutant of updateHoldState: a record is created when the id is unknown.
updateHoldStateUpsert(store, h, updates) ==
    IF h \in DOMAIN store
    THEN [store EXCEPT ![h] =
            [f \in DOMAIN store[h] |->
                IF f \in DOMAIN updates THEN updates[f] ELSE store[h][f]]]
    ELSE (h :> [f \in {"status", "cycleCount", "totalFeeCents", "command", "fanPhone"} |->
                  IF f \in DOMAIN updates THEN updates[f] ELSE "undefined"]) @@ store

\* updateHoldState: Object.assign(state, updates) on an existing record; null
\* (nothing written) otherwise.
updateHoldState(store, h, updates) ==
    IF h \in DOMAIN store
    THEN [store EXCEPT ![h] =
            [f \in DOMAIN store[h] |->
                IF f \in DOMAIN updates THEN updates[f] ELSE store[h][f]]]
    ELSE store

\* What updateHoldState returns: the updated record, or null for an unknown id.
updateHoldStateResult(store, h, updates) ==
    IF h \in DOMAIN store THEN updateHoldState(store, h, updates)[h] ELSE "null"

\* What sendHoldCommand returns: false for an unknown id, true otherwise.
sendHoldCommandResult(store, h) == h \in DOMAIN store

\* Mutant of sendHoldCommand: a command already stored is kept (first write wins).
sendHoldCommandKeepsFirst(store, h, command) ==
    IF h \in DOMAIN store /\ store[h].command = "null"
    THEN [store EXCEPT ![h].command = command]
    ELSE store

\* sendHoldCommand: state.command = command, whatever the status.
sendHoldCommand(store, h, command) ==
    IF h \in DOMAIN store
    THEN [store EXCEPT ![h].command = command]
    ELSE store

\* getActiveHolds: the ids of the holds with status active or buying, in
\* insertion order.
getActiveHolds(store, order) ==
    SelectSeq(order, LAMBDA h : store[h].status \in {"active", "buying"})

\* getAllHolds().find(h => h.fanPhone === phoneNumber): first match in insertion order.
HoldsOfPhone(phone) ==
    {i \in 1..Len(holdOrder) : holds[holdOrder[i]].fanPhone = phone}

getHoldByPhone(phone) ==
    IF HoldsOfPhone(phone) = {}
    THEN "null"
    ELSE holdOrder[CHOOSE i \in HoldsOfPhone(phone) :
                        \A j \in HoldsOfPhone(phone) : i <= j]

\* generateHoldId: `hold-${Date.now()}-${Math.random().toString(36).slice(2, 7)}`.
\* Here the runs in which every call draws a string not drawn before; the
\* runs in which two calls draw the same string are those of IdSpec.
generateHoldId == HoldIdSeq[Len(holdOrder) + 1]

\* The strings generateHoldId can return: the clock reading and the random
\* suffix are inputs of the call, and nothing compares the result with the
\* keys of the store.
generateHoldIdDraws == HoldIds

\* getHoldCommand (holder.ts): state?.command || null
getHoldCommand(store, h) ==
    IF h \in DOMAIN store THEN store[h].command ELSE "null"

----------------------------------------------------------------------------
Init ==
    /\ holds = << >>
    /\ holdOrder = << >>
    /\ pc = [h \in HoldIds |-> "idle"]
    /\ taskCycleCount = [h \in HoldIds |-> 0]
    /\ consecutiveErrors = [h \in HoldIds |-> 0]
    /\ err = [h \in HoldIds |-> "none"]
    /\ sharedBrowser = 0
    /\ liveBrowsers = {}
    /\ browserOf = [h \in HoldIds |-> 0]
    /\ context = [h \in HoldIds |-> "none"]
    /\ isAuthenticated = FALSE
    /\ authExpired = FALSE
    /\ sessionAuth = [h \in HoldIds |-> FALSE]
    /\ recoveryErr = [h \in HoldIds |-> "none"]
    /\ process = "running"
    /\ clock = 0
    /\ chatDb = << >>
    /\ lastSeenRowId = 0
    /\ sentTexts = << >>
    /\ phoneCooldowns = << >>
    /\ tickPc = "sleeping"
    /\ now = 0
    /\ messages = << >>
    /\ idx = 1
    /\ reply = << >>
    /\ handled = << >>
    /\ agentClock = 0
    /\ rateLimitMap = << >>
    /\ historyMap = << >>
    /\ agentReply = << >>
    /\ apiCalls = [phone \in AgentPhones |-> << >>]
    /\ turns = [phone \in AgentPhones |-> 0]
    /\ otpClock = OtpFirstClock
    /\ otpDb = << >>
    /\ otpPc = "idle"
    /\ otpStart = 0
    /\ otpBaseline = 0
    /\ otpMarker = 0
    /\ otpTimeout = 0
    /\ otpResult = [date |-> 0, text |-> << >>]
    /\ parseText = << >>
    /\ parsed = [action |-> "none", quantity |-> "undefined",
                 eventQuery |-> "undefined", rawText |-> << >>]

\* createHoldState + getSharedBrowser().then(runHoldCycle): the record is stored
\* and the task is started with its locals cycleCount = 0, consecutiveErrors = 0.
StartHold(h, phone) ==
    /\ holds' = (h :> createHoldState(phone)) @@ holds
    /\ holdOrder' = IF h \in DOMAIN holds THEN holdOrder ELSE Append(holdOrder, h)
    /\ pc' = [pc EXCEPT ![h] = "opening"]
    /\ taskCycleCount' = [taskCycleCount EXCEPT ![h] = 0]
    /\ consecutiveErrors' = [consecutiveErrors EXCEPT ![h] = 0]
    /\ UNCHANGED err

\* routes.ts POST /hold: no check of the requester's existing holds.
PostHold(phone) ==
    /\ Len(holdOrder) < Len(HoldIdSeq)
    /\ StartHold(generateHoldId, phone)

\* sms-handler.ts case 'hold' with a cached event list: refused when the first
\* hold of this phone is active or pending, otherwise startHoldCallback.
SmsHold(phone) ==
    /\ Len(holdOrder) < Len(HoldIdSeq)
    /\ LET existing == getHoldByPhone(phone) IN
         ~(existing # "null" /\ holds[existing].status \in {"active", "pending"})
    /\ StartHold(generateHoldId, phone)

----------------------------------------------------------------------------
\* holder.ts runHoldCycle, one hold's task

\* Mutant of finallyClose: a rejected close rejects runHoldCycle, and the
\* caller's catch stores status 'error'.
finallyCloseRethrows(store, h, outcome) ==
    IF outcome = "closeFailed" THEN updateHoldState(store, h, [status |-> "error"])
                               ELSE store

\* Lines 140-143, the finally block: await context.close().catch(() => {}).  The
\* store after it is the store before it, however the close settled.
finallyClose(store, h, outcome) == store

\* Mutant of LoopTop: the break after the buy status update is missing.
LoopTopBuyWithoutBreak(h, store) ==
    LET currentState == getHoldCommand(store, h) IN
    IF currentState = "drop"
    THEN /\ \E outcome \in CloseOutcomes :
              holds' = finallyClose(updateHoldState(store, h,
                                      [status |-> "dropped", command |-> "drop"]),
                                    h, outcome)
         /\ pc' = [pc EXCEPT ![h] = "exitDrop"]
    ELSE IF currentState = "buy"
    THEN /\ holds' = updateHoldState(store, h, [status |-> "buying", command |-> "buy"])
         /\ pc' = [pc EXCEPT ![h] = "cycling"]
    ELSE /\ holds' = store
         /\ pc' = [pc EXCEPT ![h] = "cycling"]

\* Lines 85-104 and 140-143, the top of the while loop, reached with the store
\* as the preceding statements left it: 'drop' stores dropped and breaks, 'buy'
\* stores buying and breaks, both into the finally block; otherwise
\* executeOneCycle is started and awaited.
LoopTop(h, store) ==
    LET currentState == getHoldCommand(store, h) IN
    IF currentState = "drop"
    THEN /\ \E outcome \in CloseOutcomes :
              holds' = finallyClose(updateHoldState(store, h,
                                      [status |-> "dropped", command |-> "drop"]),
                                    h, outcome)
         /\ pc' = [pc EXCEPT ![h] = "exitDrop"]
    ELSE IF currentState = "buy"
    THEN /\ \E outcome \in CloseOutcomes :
              holds' = finallyClose(updateHoldState(store, h,
                                      [status |-> "buying", command |-> "buy"]),
                                    h, outcome)
         /\ pc' = [pc EXCEPT ![h] = "exitBuy"]
    ELSE /\ holds' = store
         /\ pc' = [pc EXCEPT ![h] = "cycling"]

\* Lines 59-85: context and page opened, login done, then the initial
\* updateHoldState({status:'active', cycleCount:0, totalFeeCents:0, command:null})
\* and the first pass through the top of the loop.
Activate(h) ==
    /\ pc[h] = "opening"
    /\ LoopTop(h, updateHoldState(holds, h, [status |-> "active", cycleCount |-> 0,
                                             totalFeeCents |-> 0, command |-> "null"]))
    /\ UNCHANGED <<holdOrder, taskCycleCount, consecutiveErrors, err>>

\* Lines 59-72 throwing (newContext, goto, navigateToEventPage, loginToKYD):
\* the finally block closes the context, runHoldCycle rejects and the caller's
\* catch (routes.ts 84-87, 209-212) stores status 'error'.
OpenFail(h) ==
    /\ pc[h] = "opening"
    /\ \E outcome \in CloseOutcomes :
         holds' = updateHoldState(finallyClose(holds, h, outcome), h, [status |-> "error"])
    /\ pc' = [pc EXCEPT ![h] = "exitOpenFailed"]
    /\ UNCHANGED <<holdOrder, taskCycleCount, consecutiveErrors, err>>

\* Mutant of TotalFeeCents: the fee computed before cycleCount++ took effect.
TotalFeeCentsBeforeIncrement(cycleCount) == (cycleCount - 1) * HOLD_RATE_CENTS

\* Line 109: totalFeeCents = cycleCount * HOLD_RATE_CENTS
TotalFeeCents(cycleCount) == cycleCount * HOLD_RATE_CENTS

\* Mutant of CycleSuccess: the error count is left as it is.
CycleSuccessKeepsErrors(h) ==
    /\ pc[h] = "cycling"
    /\ taskCycleCount[h] < MaxCycles
    /\ LET cycleCount == taskCycleCount[h] + 1 IN
         /\ taskCycleCount' = [taskCycleCount EXCEPT ![h] = cycleCount]
         /\ LoopTop(h, updateHoldState(holds, h,
                          [cycleCount |-> cycleCount,
                           totalFeeCents |-> TotalFeeCents(cycleCount),
                           status |-> "active"]))
    /\ UNCHANGED <<holdOrder, err, consecutiveErrors>>

\* Lines 104-117: executeOneCycle returned; the counters are stored with status
\* 'active' and the loop goes back to its top.
CycleSuccess(h) ==
    /\ pc[h] = "cycling"
    /\ taskCycleCount[h] < MaxCycles
    /\ LET cycleCount == taskCycleCount[h] + 1 IN
         /\ taskCycleCount' = [taskCycleCount EXCEPT ![h] = cycleCount]
         /\ LoopTop(h, updateHoldState(holds, h,
                          [cycleCount |-> cycleCount,
                           totalFeeCents |-> TotalFeeCents(cycleCount),
                           status |-> "active"]))
    /\ consecutiveErrors' = [consecutiveErrors EXCEPT ![h] = 0]
    /\ UNCHANGED <<holdOrder, err>>

\* Mutant of CycleError: recovery only when the count exceeds MAX_RETRIES.
CycleErrorRecoversLate(h, kind) ==
    /\ pc[h] = "cycling"
    /\ consecutiveErrors' = [consecutiveErrors EXCEPT ![h] = @ + 1]
    /\ err' = [err EXCEPT ![h] = kind]
    /\ pc' = [pc EXCEPT ![h] =
                IF consecutiveErrors[h] + 1 > MAX_RETRIES THEN "recovering"
                                                          ELSE "pausing"]
    /\ UNCHANGED <<holds, holdOrder, taskCycleCount>>

\* Lines 119-126, 133-135: executeOneCycle threw; every error is handled alike:
\* at MAX_RETRIES consecutive errors recoverPage is awaited, below it the 3 s pause.
CycleError(h, kind) ==
    /\ pc[h] = "cycling"
    /\ consecutiveErrors' = [consecutiveErrors EXCEPT ![h] = @ + 1]
    /\ err' = [err EXCEPT ![h] = kind]
    /\ pc' = [pc EXCEPT ![h] =
                IF consecutiveErrors[h] + 1 >= MAX_RETRIES THEN "recovering"
                                                           ELSE "pausing"]
    /\ UNCHANGED <<holds, holdOrder, taskCycleCount>>

\* Line 135: the 3 s pause is over; back to the top of the loop.
PauseDone(h) ==
    /\ pc[h] = "pausing"
    /\ LoopTop(h, holds)
    /\ err' = [err EXCEPT ![h] = "none"]
    /\ UNCHANGED <<holdOrder, taskCycleCount, consecutiveErrors>>

\* Mutant of RecoverSuccess: re-acquiring from scratch also restarts the cycle count.
RecoverSuccessRestartsCount(h) ==
    /\ pc[h] = "recovering"
    /\ consecutiveErrors' = [consecutiveErrors EXCEPT ![h] = 0]
    /\ taskCycleCount' = [taskCycleCount EXCEPT ![h] = 0]
    /\ LoopTop(h, holds)
    /\ err' = [err EXCEPT ![h] = "none"]
    /\ UNCHANGED holdOrder

\* Lines 126-127: recoverPage returned a fresh page; consecutiveErrors = 0 and
\* back to the top of the loop.
RecoverSuccess(h) ==
    /\ pc[h] = "recovering"
    /\ consecutiveErrors' = [consecutiveErrors EXCEPT ![h] = 0]
    /\ LoopTop(h, holds)
    /\ err' = [err EXCEPT ![h] = "none"]
    /\ UNCHANGED <<holdOrder, taskCycleCount>>

\* Mutant of RecoverFail: a failed recovery is retried after the pause, with
\* the hold left as it is.
RecoverFailRetries(h) ==
    /\ pc[h] = "recovering"
    /\ pc' = [pc EXCEPT ![h] = "pausing"]
    /\ UNCHANGED <<holds, holdOrder, taskCycleCount, consecutiveErrors, err>>

\* Mutant of RecoverFail: the failure is stored on every hold of the store.
RecoverFailStopsAll(h) ==
    /\ pc[h] = "recovering"
    /\ holds' = [g \in DOMAIN holds |-> [holds[g] EXCEPT !.status = "error"]]
    /\ pc' = [pc EXCEPT ![h] = "exitRecoveryFailed"]
    /\ err' = [err EXCEPT ![h] = "none"]
    /\ UNCHANGED <<holdOrder, taskCycleCount, consecutiveErrors>>

\* Lines 128-132 and 140-143: recoverPage threw, whatever it threw; status
\* 'error' is stored and the loop is left through the finally block.
RecoverFail(h) ==
    /\ pc[h] = "recovering"
    /\ \E outcome \in CloseOutcomes :
         holds' = finallyClose(updateHoldState(holds, h, [status |-> "error"]), h, outcome)
    /\ pc' = [pc EXCEPT ![h] = "exitRecoveryFailed"]
    /\ err' = [err EXCEPT ![h] = "none"]
    /\ UNCHANGED <<holdOrder, taskCycleCount, consecutiveErrors>>

TaskStep(h) ==
    \/ Activate(h)
    \/ OpenFail(h)
    \/ CycleSuccess(h)
    \/ \E kind \in ErrorKinds : CycleError(h, kind)
    \/ PauseDone(h)
    \/ RecoverSuccess(h)
    \/ RecoverFail(h)

----------------------------------------------------------------------------
\* Command submission

\* routes.ts POST /hold/:id/buy: 404 for an unknown id, otherwise command and
\* status written at once.
HttpBuy(h) ==
    /\ holds' = IF h \in DOMAIN holds
                THEN updateHoldState(holds, h, [command |-> "buy", status |-> "buying"])
                ELSE holds
    /\ UNCHANGED <<holdOrder, pc, taskCycleCount, consecutiveErrors, err>>

\* routes.ts POST /hold/:id/drop: sendHoldCommand, 404 when it returns false,
\* otherwise status 'dropped'.
HttpDrop(h) ==
    /\ holds' = IF sendHoldCommandResult(holds, h)
                THEN updateHoldState(sendHoldCommand(holds, h, "drop"), h,
                                     [status |-> "dropped"])
                ELSE holds
    /\ UNCHANGED <<holdOrder, pc, taskCycleCount, consecutiveErrors, err>>

\* sms-handler.ts case 'buy' / case 'drop': the command goes to the first hold
\* of the sender's phone, whatever its status; without a hold of that phone
\* the reply is 'No active hold' and nothing is written.
SmsCommand(phone, command) ==
    /\ holds' = IF getHoldByPhone(phone) # "null"
                THEN sendHoldCommand(holds, getHoldByPhone(phone), command)
                ELSE holds
    /\ UNCHANGED <<holdOrder, pc, taskCycleCount, consecutiveErrors, err>>

\* The hold engine; the SMS poll loop is at rest.
Next ==
    \/ \E phone \in Phones \cup {NoPhone} : PostHold(phone) /\ UNCHANGED <<sessionVars, smsVars, helperVars>>
    \/ \E phone \in Phones : SmsHold(phone) /\ UNCHANGED <<sessionVars, smsVars, helperVars>>
    \/ \E h \in HoldIds : TaskStep(h) /\ UNCHANGED <<sessionVars, smsVars, helperVars>>
    \/ \E h \in HoldIds : HttpBuy(h) /\ UNCHANGED <<sessionVars, smsVars, helperVars>>
    \/ \E h \in HoldIds : HttpDrop(h) /\ UNCHANGED <<sessionVars, smsVars, helperVars>>
    \/ \E phone \in Phones, command \in {"buy", "drop"} :
          SmsCommand(phone, command) /\ UNCHANGED <<sessionVars, smsVars, helperVars>>

Spec == Init /\ [][Next]_vars

\* The event loop resumes every task whose awaited call has settled.
FairSpec == Spec /\ \A h \in HoldIds : WF_vars(TaskStep(h) /\ UNCHANGED <<sessionVars, smsVars, helperVars>>)

\* POST /hold when the id is whatever generateHoldId draws.  A second call
\* draws the string of an earlier one only within the same millisecond, when
\* the earlier task is still waiting for its browser context.
PostHoldWithId(h, phone) ==
    /\ h \in generateHoldIdDraws
    /\ h \in DOMAIN holds => pc[h] = "opening"
    /\ StartHold(h, phone)

\* The hold engine over the HTTP routes with drawn ids.
IdNext ==
    \/ \E h \in HoldIds, phone \in Phones \cup {NoPhone} :
          PostHoldWithId(h, phone) /\ UNCHANGED <<sessionVars, smsVars, helperVars>>
    \/ \E h \in HoldIds : TaskStep(h) /\ UNCHANGED <<sessionVars, smsVars, helperVars>>
    \/ \E h \in HoldIds : HttpBuy(h) /\ UNCHANGED <<sessionVars, smsVars, helperVars>>
    \/ \E h \in HoldIds : HttpDrop(h) /\ UNCHANGED <<sessionVars, smsVars, helperVars>>

IdSpec == Init /\ [][IdNext]_vars

TypeOK ==
    /\ DOMAIN holds \subseteq HoldIds
    /\ \A h \in DOMAIN holds :
         /\ holds[h].status \in Statuses
         /\ holds[h].cycleCount \in 0..MaxCycles
         /\ holds[h].command \in {"null", "buy", "drop"}
         /\ holds[h].fanPhone \in Phones \cup {NoPhone}
    /\ \A h \in HoldIds :
         /\ pc[h] \in {"idle"} \cup Awaiting \cup Ended
         /\ consecutiveErrors[h] \in 0..MAX_RETRIES
         /\ err[h] \in ErrorKinds \cup {"none"}
         /\ browserOf[h] \in liveBrowsers \cup {0}
         /\ context[h] \in {"none", "open"} \cup CloseOutcomes
         /\ sessionAuth[h] \in BOOLEAN
         /\ recoveryErr[h] \in RecoveryFailures \cup {"none"}
    /\ sharedBrowser \in liveBrowsers \cup {0}
    /\ liveBrowsers \subseteq 1..Len(HoldIdSeq)
    /\ isAuthenticated \in BOOLEAN
    /\ authExpired \in BOOLEAN
    /\ process \in {"running", "exited"}

----------------------------------------------------------------------------
\* The session layer: the shared browser of holder.ts, the BrowserContext of
\* each runHoldCycle and the login of kyd-auth.ts.  Each definition below is
\* what a step of the hold engine does to the session layer; SessionNext puts
\* the two halves of every step together.

\* kyd-auth.ts needsLogin
needsLogin == ~isAuthenticated \/ authExpired

\* holder.ts 70-72 and 319-321: if (needsLogin()) await loginToKYD(page), with
\* loginToKYD returning; it sets isAuthenticated and lastAuthTime on every path.
LoginIfNeeded(h) ==
    IF needsLogin
    THEN /\ isAuthenticated' = TRUE
         /\ authExpired' = FALSE
         /\ sessionAuth' = [sessionAuth EXCEPT ![h] = TRUE]
    ELSE UNCHANGED authVars

\* routes.ts 77 and getSharedBrowser 341-350 up to its first await, for the hold
\* just created: with a shared instance (a launched instance stays connected)
\* it is returned and runHoldCycle awaits newContext on it; with none,
\* chromium.launch is awaited.
GetSharedBrowserCall(h) ==
    /\ browserOf' = [browserOf EXCEPT ![h] = sharedBrowser]
    /\ context' = [context EXCEPT ![h] = "none"]
    /\ sessionAuth' = [sessionAuth EXCEPT ![h] = FALSE]
    /\ recoveryErr' = [recoveryErr EXCEPT ![h] = "none"]
    /\ UNCHANGED <<sharedBrowser, liveBrowsers, process, isAuthenticated, authExpired>>

\* getSharedBrowser 343-349: chromium.launch resolved with a new instance; it is
\* assigned to sharedBrowser, whatever that holds by now, and returned.
LaunchDone(h) ==
    /\ pc[h] = "opening"
    /\ browserOf[h] = 0
    /\ LET instance == Cardinality(liveBrowsers) + 1 IN
         /\ liveBrowsers' = liveBrowsers \cup {instance}
         /\ sharedBrowser' = instance
         /\ browserOf' = [browserOf EXCEPT ![h] = instance]
    /\ UNCHANGED <<process, context, authVars, recoveryErr>>

\* Lines 140-143 seen from the session: when the step took the task out of
\* runHoldCycle the context's close has settled, otherwise the context is open.
ContextAfterStep(h) ==
    IF pc'[h] \in Ended
    THEN \E outcome \in CloseOutcomes : context' = [context EXCEPT ![h] = outcome]
    ELSE context' = [context EXCEPT ![h] = "open"]

\* Lines 59-72 for a task that has its browser: newContext, the pages, and
\* login if needsLogin() says so.
SessionOpened(h) ==
    /\ browserOf[h] # 0
    /\ LoginIfNeeded(h)
    /\ ContextAfterStep(h)
    /\ UNCHANGED <<driverVars, recoveryErr>>

\* Lines 59-72 throwing at the given stage: newContext threw and there is no
\* context and no finally block, or a later call threw and the finally block
\* closes the context.
SessionOpenFailed(h, stage) ==
    /\ browserOf[h] # 0
    /\ IF stage = "newContext" THEN UNCHANGED context ELSE ContextAfterStep(h)
    /\ UNCHANGED <<driverVars, authVars, recoveryErr>>

\* A step of the while loop that opens nothing and logs in nowhere (a renewal
\* returned, the pause is over).
SessionKept(h) ==
    /\ ContextAfterStep(h)
    /\ UNCHANGED <<driverVars, authVars, recoveryErr>>

\* recoverPage 304-325 returning: a fresh page of the same context, login if
\* needsLogin() says so.
SessionRecovered(h) ==
    /\ LoginIfNeeded(h)
    /\ ContextAfterStep(h)
    /\ UNCHANGED <<driverVars, recoveryErr>>

\* recoverPage 304-325 throwing; loginToKYD is called, and getLatestOTP can time
\* out (imessage-reader.ts 114-149), only when needsLogin() says so.
SessionRecoveryFailed(h, cause) ==
    /\ cause = "otpTimeout" => needsLogin
    /\ recoveryErr' = [recoveryErr EXCEPT ![h] = cause]
    /\ ContextAfterStep(h)
    /\ UNCHANGED <<driverVars, authVars>>

\* closeSharedBrowser 352-357 on the module variable and the live instances:
\* with an instance in sharedBrowser it is closed (a rejected close swallowed)
\* and the variable set to null; with null nothing is done.  No code of the
\* repository calls it.
closeSharedBrowser(shared, live) ==
    IF shared # 0 THEN [shared |-> 0, live |-> live \ {shared}]
                  ELSE [shared |-> shared, live |-> live]

\* Eight hours (AUTH_SESSION_TTL_MS) have passed since the last login.
AuthTtlPasses ==
    /\ isAuthenticated
    /\ ~authExpired
    /\ authExpired' = TRUE
    /\ UNCHANGED <<driverVars, context, isAuthenticated, sessionAuth, recoveryErr>>

\* index.ts 58-69, the SIGTERM and SIGINT handlers: server.close() and
\* process.exit(0).
Shutdown ==
    /\ process' = "exited"
    /\ UNCHANGED <<sharedBrowser, liveBrowsers, browserOf, context, authVars, recoveryErr>>

\* The process has not exited.
Running == process = "running"

\* A step of h's task, store and session together.
SessionTaskStep(h) ==
    \/ LaunchDone(h) /\ UNCHANGED holdVars
    \/ Activate(h) /\ SessionOpened(h)
    \/ OpenFail(h) /\ \E stage \in OpenStages : SessionOpenFailed(h, stage)
    \/ CycleSuccess(h) /\ SessionKept(h)
    \/ (\E kind \in ErrorKinds : CycleError(h, kind)) /\ UNCHANGED sessionVars
    \/ PauseDone(h) /\ SessionKept(h)
    \/ RecoverSuccess(h) /\ SessionRecovered(h)
    \/ RecoverFail(h) /\ \E cause \in RecoveryFailures : SessionRecoveryFailed(h, cause)

\* The hold engine with its session layer, while the process runs.  Holds are
\* started and commanded over the HTTP routes, which is all the session layer
\* can tell apart: it reads no phone number and no status.
SessionNext ==
    \/ Running /\ PostHold(NoPhone) /\ GetSharedBrowserCall(generateHoldId)
          /\ UNCHANGED <<smsVars, helperVars>>
    \/ \E h \in HoldIds : Running /\ SessionTaskStep(h) /\ UNCHANGED <<smsVars, helperVars>>
    \/ \E h \in HoldIds : Running /\ HttpBuy(h) /\ UNCHANGED <<sessionVars, smsVars, helperVars>>
    \/ \E h \in HoldIds : Running /\ HttpDrop(h) /\ UNCHANGED <<sessionVars, smsVars, helperVars>>
    \/ Running /\ AuthTtlPasses /\ UNCHANGED <<holdVars, smsVars, helperVars>>
    \/ Running /\ Shutdown /\ UNCHANGED <<holdVars, smsVars, helperVars>>

SessionSpec == Init /\ [][SessionNext]_vars

----------------------------------------------------------------------------
\* sms-loop.ts, the poll loop

IsDigit(c) == c \in Digits

\* normalizePhone: phone.replace(/\D/g, '').replace(/^1(\d{10})$/, '$1')
normalizePhone(phone) ==
    LET digits == SelectSeq(phone, IsDigit) IN
    IF Len(digits) = 11 /\ digits[1] = "1" THEN Tail(digits) ELSE digits

\* msg.text.startsWith('QUORUM <ticket>')
startsWithBotPrefix(text) == Len(text) >= 1 /\ text[1] = BotPrefix

\* msg.text.trim() === ''
trimIsEmpty(text) == \A i \in 1..Len(text) : text[i] = " "

\* Lines 263-265: entries sent more than SENT_TEXT_TTL_MS before tnow are deleted.
pruneSentTexts(sent, tnow) ==
    [text \in {t \in DOMAIN sent : ~(tnow - sent[t] > SENT_TEXT_TTL_MS)} |-> sent[text]]

\* getRecentMessages(loopStartTimestamp): the rows of the lookback window,
\* ORDER BY m.date ASC (is_from_me = 0, text not null, text != '' hold of every row).
getRecentMessages == chatDb

\* Mutant of raiseLastSeenRowId: the mark is left where it was.
raiseLastSeenRowIdNot(seen, rowid) == seen

\* Line 274: lastSeenRowId = Math.max(lastSeenRowId, msg.rowid)
raiseLastSeenRowId(seen, rowid) == IF rowid > seen THEN rowid ELSE seen

\* Mutant of SkipReason: neither the prefix guard nor the sentTexts guard.
SkipReasonWithoutEchoGuards(msg) ==
    IF msg.rowid <= lastSeenRowId THEN "seen"
    ELSE IF msg.sender = KYD_2FA_SENDER THEN "2fa"
    ELSE IF trimIsEmpty(msg.text) THEN "blank"
    ELSE IF /\ normalizePhone(msg.sender) \in DOMAIN phoneCooldowns
            /\ now - phoneCooldowns[normalizePhone(msg.sender)] < COOLDOWN_MS
         THEN "cooldown"
    ELSE "inbound"

\* Mutant of SkipReason: only rows strictly below lastSeenRowId are passed over.
SkipReasonBelowOnly(msg) ==
    IF msg.rowid < lastSeenRowId THEN "seen"
    ELSE IF msg.sender = KYD_2FA_SENDER THEN "2fa"
    ELSE IF trimIsEmpty(msg.text) THEN "blank"
    ELSE IF startsWithBotPrefix(msg.text) THEN "botEcho"
    ELSE IF msg.text \in DOMAIN sentTexts THEN "echo"
    ELSE IF /\ normalizePhone(msg.sender) \in DOMAIN phoneCooldowns
            /\ now - phoneCooldowns[normalizePhone(msg.sender)] < COOLDOWN_MS
         THEN "cooldown"
    ELSE "inbound"

\* Lines 271-305, the filters of the for loop in their order; "inbound" is a
\* message that passes them all.  A phone without an entry in phoneCooldowns
\* reads as 0, which Date.now() is always more than COOLDOWN_MS ahead of.
SkipReason(msg) ==
    IF msg.rowid <= lastSeenRowId THEN "seen"
    ELSE IF msg.sender = KYD_2FA_SENDER THEN "2fa"
    ELSE IF trimIsEmpty(msg.text) THEN "blank"
    ELSE IF startsWithBotPrefix(msg.text) THEN "botEcho"
    ELSE IF msg.text \in DOMAIN sentTexts THEN "echo"
    ELSE IF /\ normalizePhone(msg.sender) \in DOMAIN phoneCooldowns
            /\ now - phoneCooldowns[normalizePhone(msg.sender)] < COOLDOWN_MS
         THEN "cooldown"
    ELSE "inbound"

\* The Messages app stores a received text: the row gets the next ROWID, and
\* its date puts it at position pos of the rows ordered by date.
Arrive(row, pos) ==
    /\ tickPc # "loop"
    /\ Len(chatDb) < MaxMessages
    /\ pos \in 1..(Len(chatDb) + 1)
    /\ chatDb' = SubSeq(chatDb, 1, pos - 1)
                 \o <<[rowid |-> Len(chatDb) + 1, sender |-> row.sender, text |-> row.text]>>
                 \o SubSeq(chatDb, pos, Len(chatDb))
    /\ UNCHANGED <<clock, lastSeenRowId, sentTexts, phoneCooldowns, tickPc,
                   now, messages, idx, reply, handled>>

\* The for loop moves on from messages[idx]: to the next message, or out of
\* tick and into the sleep of line 393, where the tick's locals are gone.
Continue ==
    IF idx + 1 > Len(messages)
    THEN /\ tickPc' = "sleeping"
         /\ idx' = 1
         /\ messages' = << >>
         /\ now' = 0
    ELSE /\ tickPc' = "loop"
         /\ idx' = idx + 1
         /\ UNCHANGED <<messages, now>>

\* Lines 393, 258-267: the sleep is over; tick takes now, prunes sentTexts and
\* reads the messages.
TickStart ==
    /\ tickPc = "sleeping"
    /\ clock + POLL_INTERVAL_MS <= MaxClock
    /\ clock' = clock + POLL_INTERVAL_MS
    /\ sentTexts' = pruneSentTexts(sentTexts, clock')
    /\ IF getRecentMessages = << >>
       THEN UNCHANGED <<tickPc, now, messages, idx>>
       ELSE /\ tickPc' = "loop"
            /\ now' = clock'
            /\ messages' = getRecentMessages
            /\ idx' = 1
    /\ UNCHANGED <<chatDb, lastSeenRowId, phoneCooldowns, reply, handled>>

\* Mutant of HandleMessage: the filters come first, and lastSeenRowId is
\* raised only for a message taken as inbound.
HandleMessageMarksInboundOnly ==
    /\ tickPc = "loop"
    /\ LET msg == messages[idx]
           reason == SkipReason(msg) IN
         IF reason = "seen"
         THEN /\ Continue
              /\ UNCHANGED <<lastSeenRowId, handled>>
         ELSE /\ handled' = Append(handled,
                                   [rowid |-> msg.rowid, sender |-> msg.sender,
                                    result |-> reason, at |-> now])
              /\ IF reason = "inbound"
                 THEN /\ lastSeenRowId' = raiseLastSeenRowId(lastSeenRowId, msg.rowid)
                      /\ tickPc' = "agent"
                      /\ UNCHANGED <<now, messages, idx>>
                 ELSE /\ Continue
                      /\ UNCHANGED lastSeenRowId
    /\ UNCHANGED <<clock, chatDb, sentTexts, phoneCooldowns, reply>>

\* Lines 269-308, one pass of the for loop up to its first await: a message at
\* or below lastSeenRowId is passed over; any other raises lastSeenRowId and is
\* then either discarded by a filter or taken as an inbound fan message.
HandleMessage ==
    /\ tickPc = "loop"
    /\ LET msg == messages[idx]
           reason == SkipReason(msg) IN
         IF reason = "seen"
         THEN /\ Continue
              /\ UNCHANGED <<lastSeenRowId, handled>>
         ELSE /\ lastSeenRowId' = raiseLastSeenRowId(lastSeenRowId, msg.rowid)
              /\ handled' = Append(handled,
                                   [rowid |-> msg.rowid, sender |-> msg.sender,
                                    result |-> reason, at |-> now])
              /\ IF reason = "inbound"
                 THEN /\ tickPc' = "agent"
                      /\ UNCHANGED <<now, messages, idx>>
                 ELSE Continue
    /\ UNCHANGED <<clock, chatDb, sentTexts, phoneCooldowns, reply>>

\* Lines 310-337: the reply is the hardcoded one for 'eggy', what
\* processMessage returned, or the apology when processMessage threw.
AgentDone(thrown, latency) ==
    /\ tickPc = "agent"
    /\ clock + latency <= MaxClock
    /\ clock' = clock + latency
    /\ reply' = IF messages[idx].text = <<"eggy">> THEN EggyReply
                ELSE IF thrown THEN AgentErrorReply
                ELSE AgentReply
    /\ tickPc' = "sending"
    /\ UNCHANGED <<chatDb, lastSeenRowId, sentTexts, phoneCooldowns,
                   now, messages, idx, handled>>

\* Lines 341-346: sendMessage resolved; the reply goes into sentTexts and the
\* sender's cooldown is stamped, both with Date.now().
SendOk(latency) ==
    /\ tickPc = "sending"
    /\ clock + latency <= MaxClock
    /\ clock' = clock + latency
    /\ sentTexts' = (reply :> clock') @@ sentTexts
    /\ phoneCooldowns' = (normalizePhone(messages[idx].sender) :> clock') @@ phoneCooldowns
    /\ reply' = << >>
    /\ Continue
    /\ UNCHANGED <<chatDb, lastSeenRowId, handled>>

\* Mutant of SendFail: the error leaves the for loop and ends the tick.
SendFailEscapes(latency) ==
    /\ tickPc = "sending"
    /\ clock + latency <= MaxClock
    /\ clock' = clock + latency
    /\ reply' = << >>
    /\ tickPc' = "sleeping"
    /\ idx' = 1
    /\ messages' = << >>
    /\ now' = 0
    /\ UNCHANGED <<chatDb, lastSeenRowId, sentTexts, phoneCooldowns, handled>>

\* Lines 347-349: sendMessage threw; the error is logged.
SendFail(latency) ==
    /\ tickPc = "sending"
    /\ clock + latency <= MaxClock
    /\ clock' = clock + latency
    /\ reply' = << >>
    /\ Continue
    /\ UNCHANGED <<chatDb, lastSeenRowId, sentTexts, phoneCooldowns, handled>>

\* The poll loop; the hold engine is at rest.
SmsNext ==
    \/ \E row \in InboundRows, pos \in 1..MaxMessages :
          Arrive(row, pos) /\ UNCHANGED <<holdVars, sessionVars, helperVars>>
    \/ TickStart /\ UNCHANGED <<holdVars, sessionVars, helperVars>>
    \/ HandleMessage /\ UNCHANGED <<holdVars, sessionVars, helperVars>>
    \/ \E thrown \in BOOLEAN, latency \in Latencies :
          AgentDone(thrown, latency) /\ UNCHANGED <<holdVars, sessionVars, helperVars>>
    \/ \E latency \in Latencies : SendOk(latency) /\ UNCHANGED <<holdVars, sessionVars, helperVars>>
    \/ \E latency \in Latencies : SendFail(latency) /\ UNCHANGED <<holdVars, sessionVars, helperVars>>

SmsSpec == Init /\ [][SmsNext]_vars

----------------------------------------------------------------------------
\* chat-agent.ts, the interpreter behind the poll loop

\* The calls of phone that count at tnow: filter(t => now - t < RATE_WINDOW_MS).
callsInWindow(map, phone, tnow) ==
    LET InWindow(t) == tnow - t < RATE_WINDOW_MS IN
    SelectSeq(IF phone \in DOMAIN map THEN map[phone] ELSE << >>, InWindow)

\* Mutant of checkRateLimitResult: the call is refused only above RATE_LIMIT.
checkRateLimitResultAbove(map, phone, tnow) ==
    ~(Len(callsInWindow(map, phone, tnow)) > RATE_LIMIT)

\* What checkRateLimit returns: false when the window already holds RATE_LIMIT calls.
checkRateLimitResult(map, phone, tnow) ==
    ~(Len(callsInWindow(map, phone, tnow)) >= RATE_LIMIT)

\* checkRateLimit: an allowed call is stamped and the filtered list stored; a
\* refused call stores nothing.
checkRateLimit(map, phone, tnow) ==
    IF checkRateLimitResult(map, phone, tnow)
    THEN (phone :> Append(callsInWindow(map, phone, tnow), tnow)) @@ map
    ELSE map

\* getHistory: historyMap.get(phone) || []
getHistory(map, phone) == IF phone \in DOMAIN map THEN map[phone] ELSE << >>

\* history.slice(-n)
sliceLast(history, n) ==
    SubSeq(history, IF Len(history) > n THEN Len(history) - n + 1 ELSE 1, Len(history))

\* Mutant of appendHistory: the list is trimmed before the new entry is pushed.
appendHistoryTrimsFirst(map, phone, entry) ==
    (phone :> Append(sliceLast(getHistory(map, phone), MAX_HISTORY), entry)) @@ map

\* appendHistory: push, then keep the last MAX_HISTORY entries.
appendHistory(map, phone, entry) ==
    (phone :> sliceLast(Append(getHistory(map, phone), entry), MAX_HISTORY)) @@ map

\* isBlocked: BLOCK_PATTERNS.some(p => p.test(text))
isBlocked(text) == \E i \in 1..Len(text.tokens) : text.tokens[i] \in BlockTokens

\* Mutant of finalReply: the text of the API goes out as it came.
finalReplyAsIs(apiText) == apiText

\* Line 203: the prefix is put in front of a reply that does not start with it.
finalReply(apiText) ==
    IF startsWithBotPrefix(apiText) THEN apiText ELSE <<BotPrefix>> \o apiText

\* Lines 213-218 and 220-223: what processMessage returns once the call has
\* been let through to the API.
replyAfterApi(text, api) ==
    IF api.thrown THEN AgentErrorReply
    ELSE IF text.length > MaxTextLength
         THEN LONG_MSG_FALLBACK \o finalReply(api.text)
         ELSE finalReply(api.text)

\* Every text processMessage can return.
ProcessMessageReplies ==
    {BLOCK_FALLBACK, RATE_LIMIT_MSG}
       \cup {replyAfterApi(text, api) : text \in AgentTexts, api \in ApiOutcomes}

\* What processMessage returns, lines 151-160 first.
processMessageReply(phone, text, api) ==
    IF isBlocked(text) THEN BLOCK_FALLBACK
    ELSE IF ~checkRateLimitResult(rateLimitMap, phone, agentClock) THEN RATE_LIMIT_MSG
    ELSE replyAfterApi(text, api)

\* processMessage, called and awaited by the poll loop one message at a time.
\* An entry of the history stands for the text of the exchange it belongs to.
ProcessMessage(phone, text, api) ==
    /\ agentReply' = processMessageReply(phone, text, api)
    /\ IF isBlocked(text) \/ ~checkRateLimitResult(rateLimitMap, phone, agentClock)
       THEN UNCHANGED <<rateLimitMap, historyMap, apiCalls, turns>>
       ELSE /\ Len(apiCalls[phone]) < (IF phone = FanA THEN MaxApiCalls
                                                          ELSE MaxOtherApiCalls)
            /\ rateLimitMap' = checkRateLimit(rateLimitMap, phone, agentClock)
            /\ apiCalls' = [apiCalls EXCEPT ![phone] = Append(@, agentClock)]
            /\ IF api.thrown
               THEN UNCHANGED <<historyMap, turns>>
               ELSE /\ turns' = [turns EXCEPT ![phone] = @ + 1]
                    /\ historyMap' =
                         appendHistory(
                            appendHistory(historyMap, phone,
                                          [role |-> "user", turn |-> turns[phone] + 1]),
                            phone, [role |-> "assistant", turn |-> turns[phone] + 1])
    /\ UNCHANGED agentClock

\* Time passes between two calls.
AgentTimePasses ==
    /\ agentClock + RATE_WINDOW_MS <= MaxAgentClock
    /\ agentClock' = agentClock + RATE_WINDOW_MS
    /\ UNCHANGED <<rateLimitMap, historyMap, agentReply, apiCalls, turns>>

\* The chat agent alone.
AgentNext ==
    \/ \E phone \in AgentPhones, text \in AgentTexts, api \in ApiOutcomes :
          ProcessMessage(phone, text, api)
             /\ UNCHANGED <<holdVars, sessionVars, smsVars, otpVars, parseVars>>
    \/ AgentTimePasses /\ UNCHANGED <<holdVars, sessionVars, smsVars, otpVars, parseVars>>

AgentSpec == Init /\ [][AgentNext]_vars

----------------------------------------------------------------------------
\* sms-handler.ts, parseCommand

\* The texts parseCommand is called with.
CommandTexts == UNION {[1..n -> Words] : n \in 1..MaxWords}

\* toLowerCase of one word.
toLowerCase(word) == IF word = "Hold" THEN "hold" ELSE word

\* text.toLowerCase().trim()
lowerOf(text) == [i \in 1..Len(text) |-> toLowerCase(text[i])]

\* /^\d+$/ on one word, and parseInt of it.
isDigits(word) == word \in {"2", "3"}

parseInt(word) == IF word = "2" THEN 2 ELSE 3

\* The words of text from position i on.
wordsFrom(text, i) == SubSeq(text, i, Len(text))

\* /^(w1|w2|...)\b/ for alternatives of one or two words.
startsWith(lower, alternatives) ==
    \E a \in alternatives : Len(lower) >= Len(a) /\ SubSeq(lower, 1, Len(a)) = a

\* parseCommand: the tests in the order of the code.  /^hold\s+(\d+)\s+(.+)/
\* needs a number and at least one more word; /^hold\s+(.+)/ needs one more
\* word; /^hold\s+(.+?)\s+(\d+)$/ is tried only when neither matched.
parseCommand(text) ==
    LET lower == lowerOf(text)
        plain == [action |-> "help", quantity |-> "undefined",
                  eventQuery |-> "undefined", rawText |-> text] IN
    IF startsWith(lower, {<<"buy">>}) THEN [plain EXCEPT !.action = "buy"]
    ELSE IF startsWith(lower, {<<"drop">>, <<"cancel">>, <<"release">>, <<"stop">>, <<"quit">>})
    THEN [plain EXCEPT !.action = "drop"]
    ELSE IF startsWith(lower, {<<"status">>, <<"check">>, <<"how", "long">>, <<"update">>, <<"info">>})
    THEN [plain EXCEPT !.action = "status"]
    ELSE IF startsWith(lower, {<<"events">>, <<"shows">>, <<"list">>, <<"what's", "on">>,
                               <<"whats", "on">>, <<"lineup">>, <<"schedule">>})
    THEN [plain EXCEPT !.action = "list"]
    ELSE IF Len(lower) >= 3 /\ lower[1] = "hold" /\ isDigits(lower[2])
    THEN [plain EXCEPT !.action = "hold", !.quantity = parseInt(lower[2]),
                       !.eventQuery = wordsFrom(lower, 3)]
    ELSE IF Len(lower) >= 2 /\ lower[1] = "hold"
    THEN [plain EXCEPT !.action = "hold", !.quantity = 1,
                       !.eventQuery = wordsFrom(lower, 2)]
    ELSE IF Len(lower) >= 3 /\ lower[1] = "hold" /\ isDigits(lower[Len(lower)])
    THEN [plain EXCEPT !.action = "hold", !.quantity = parseInt(lower[Len(lower)]),
                       !.eventQuery = SubSeq(lower, 2, Len(lower) - 1)]
    ELSE plain

\* handleInboundSMS calls parseCommand on the text of a message.
ParseCommand(text) ==
    /\ parseText' = text
    /\ parsed' = parseCommand(text)

ParseNext ==
    \E text \in CommandTexts :
       ParseCommand(text) /\ UNCHANGED <<holdVars, sessionVars, smsVars, agentVars, otpVars>>

ParseSpec == Init /\ [][ParseNext]_vars

----------------------------------------------------------------------------
\* imessage-reader.ts, getLatestOTP

\* chatDbDateToUnix; both clocks are counted from the same origin here.
chatDbDateToUnix(chatDbDate) == chatDbDate \div DateUnitsPerSecond

\* parseOTP: the first 4-digit code of the text, or null.
parseOTP(text) ==
    IF \E i \in 1..Len(text) : text[i] \in OtpCodes
    THEN text[CHOOSE i \in 1..Len(text) :
                 /\ text[i] \in OtpCodes
                 /\ \A j \in 1..(i - 1) : text[j] \notin OtpCodes]
    ELSE "null"

\* getLatestMessageFromSender: ORDER BY date DESC LIMIT 1
getLatestMessageFromSender(db) == db[Len(db)]

\* Mutant of acceptsOtp: a row dated in the second of the baseline is taken.
acceptsOtpAtBaseline(msg, baseline) ==
    /\ chatDbDateToUnix(msg.date) >= baseline
    /\ parseOTP(msg.text) # "null"

\* Lines 120-124: the row is newer than the baseline and carries a code.
acceptsOtp(msg, baseline) ==
    /\ chatDbDateToUnix(msg.date) > baseline
    /\ parseOTP(msg.text) # "null"

\* The 2FA sender's text is stored by the Messages app.
OtpArrive(text) ==
    /\ otpPc \in {"idle", "polling"}
    /\ Len(otpDb) < MaxOtpMessages
    /\ otpDb' = Append(otpDb, [date |-> otpClock, text |-> text])
    /\ UNCHANGED <<otpClock, otpPc, otpStart, otpBaseline, otpMarker, otpTimeout, otpResult>>

\* Time passes before getLatestOTP is called.
OtpTimePasses ==
    /\ otpPc = "idle"
    /\ otpClock + 1000 <= MaxOtpCallClock
    /\ otpClock' = otpClock + 1000
    /\ UNCHANGED <<otpDb, otpPc, otpStart, otpBaseline, otpMarker, otpTimeout, otpResult>>

\* Lines 114-149, one pass of the while loop at time tnow: the time-out
\* error when the time is up; otherwise the latest row is read, a permission
\* error is thrown on, any other error is swallowed, and the pass ends with
\* the code returned or in the pause.
OtpPass(tnow, start, baseline, timeoutMs, access) ==
    IF ~(tnow - start < timeoutMs)
    THEN otpPc' = "timedOut" /\ UNCHANGED otpResult
    ELSE IF access = "denied"
    THEN otpPc' = "dbError" /\ UNCHANGED otpResult
    ELSE IF /\ access = "ok"
            /\ otpDb # << >>
            /\ acceptsOtp(getLatestMessageFromSender(otpDb), baseline)
    THEN otpPc' = "returned" /\ otpResult' = getLatestMessageFromSender(otpDb)
    ELSE otpPc' = "polling" /\ UNCHANGED otpResult

\* Lines 101-112 and the first pass: openDB and the first getHandleId are
\* outside the try and their error leaves the call (opened = FALSE); baselineTimestamp = afterTimestamp || Math.floor(Date.now() / 1000) - 5.
GetLatestOTP(afterTimestamp, timeoutMs, opened, access) ==
    /\ otpPc = "idle"
    /\ IF ~opened
       THEN /\ otpPc' = "dbError"
            /\ UNCHANGED <<otpStart, otpBaseline, otpMarker, otpTimeout, otpResult>>
       ELSE LET baseline == IF afterTimestamp # 0 THEN afterTimestamp
                                                  ELSE otpClock \div 1000 - 5 IN
            /\ otpStart' = otpClock
            /\ otpBaseline' = baseline
            /\ otpMarker' = afterTimestamp
            /\ otpTimeout' = timeoutMs
            /\ OtpPass(otpClock, otpClock, baseline, timeoutMs, access)
    /\ UNCHANGED <<otpClock, otpDb>>

\* Line 145: the pause is over, the loop condition is tested again.
OtpWake(access) ==
    /\ otpPc = "polling"
    /\ otpClock' = otpClock + OTP_POLL_MS
    /\ OtpPass(otpClock', otpStart, otpBaseline, otpTimeout, access)
    /\ UNCHANGED <<otpDb, otpStart, otpBaseline, otpMarker, otpTimeout>>

\* The markers a caller passes: none, or two seconds before now (kyd-auth.ts:54).
OtpMarkers == {0, otpClock \div 1000 - 2}

OtpWakes == \E access \in DbAccess : OtpWake(access)

OtpNext ==
    \/ \E text \in OtpTexts :
          OtpArrive(text) /\ UNCHANGED <<holdVars, sessionVars, smsVars, agentVars, parseVars>>
    \/ OtpTimePasses /\ UNCHANGED <<holdVars, sessionVars, smsVars, agentVars, parseVars>>
    \/ \E afterTimestamp \in OtpMarkers, timeoutMs \in OtpTimeouts,
          opened \in BOOLEAN, access \in DbAccess :
          GetLatestOTP(afterTimestamp, timeoutMs, opened, access)
             /\ UNCHANGED <<holdVars, sessionVars, smsVars, agentVars, parseVars>>
    \/ OtpWakes /\ UNCHANGED <<holdVars, sessionVars, smsVars, agentVars, parseVars>>

\* The timer of the pause fires.
OtpSpec ==
    /\ Init
    /\ [][OtpNext]_vars
    /\ WF_vars(OtpWakes /\ UNCHANGED <<holdVars, sessionVars, smsVars, agentVars, parseVars>>)

----------------------------------------------------------------------------
\* Properties

\* The stored status of a hold, "none" before the hold exists.
StatusOf(h) == IF h \in DOMAIN holds THEN holds[h].status ELSE "none"

\* This step takes h's task through the top of the while loop: the task
\* resumes from a successful renewal, from the retry pause or from a
\* successful recovery.
ReachesLoopTop(h) ==
    \/ pc[h] = "cycling" /\ taskCycleCount'[h] # taskCycleCount[h]
    \/ pc[h] = "pausing" /\ pc'[h] # "pausing"
    \/ pc[h] = "recovering" /\ pc'[h] \notin {"recovering", "exitRecoveryFailed"}

\* C1: while a drop command is pending on an active hold, no step changes the
\* stored cycle counter or fee: the result of the renewal in flight when the
\* command was written is discarded.
C1_DropDiscardsRenewalInFlight ==
    [][\A h \in DOMAIN holds :
         (holds[h].status = "active" /\ holds[h].command = "drop")
            => /\ holds'[h].cycleCount = holds[h].cycleCount
               /\ holds'[h].totalFeeCents = holds[h].totalFeeCents]_vars

\* C2: in every state totalFeeCents = cycleCount * HOLD_RATE_CENTS for every
\* hold, and the step that completes the third successful renewal of a hold
\* with no command pending leaves cycleCount = 3, totalFeeCents = 30 and
\* status active.
C2_FeeIsCyclesTimesRate ==
    /\ [](\A h \in DOMAIN holds :
            holds[h].totalFeeCents = holds[h].cycleCount * HOLD_RATE_CENTS)
    /\ [][\A h \in DOMAIN holds :
            (/\ pc[h] = "cycling"
             /\ taskCycleCount[h] = 2
             /\ taskCycleCount'[h] = 3
             /\ holds[h].command = "null")
               => /\ holds'[h].cycleCount = 3
                  /\ holds'[h].totalFeeCents = 30
                  /\ holds'[h].status = "active"]_vars

\* C2 witness: a hold stands at three completed cycles with a fee of 30.
C2_Witness ==
    \E h \in DOMAIN holds :
        /\ taskCycleCount[h] = 3
        /\ holds[h].cycleCount = 3
        /\ holds[h].totalFeeCents = 30
        /\ holds[h].status = "active"

\* C3: no step removes a hold or decreases its stored cycleCount or totalFeeCents.
C3_CountersNeverDecrease ==
    [][\A h \in DOMAIN holds :
         /\ h \in DOMAIN holds'
         /\ holds'[h].cycleCount >= holds[h].cycleCount
         /\ holds'[h].totalFeeCents >= holds[h].totalFeeCents]_vars

\* C3 witness: a hold with cycles on its record went through three errors into
\* recovery while a second hold has been created and a command submitted.
C3_Witness ==
    /\ Len(holdOrder) = 2
    /\ \E h \in DOMAIN holds :
        /\ holds[h].cycleCount >= 2
        /\ holds[h].command # "null"
        /\ pc[h] = "recovering"

\* C4: a step that increases a hold's stored cycleCount or totalFeeCents starts
\* with status active, adds exactly one cycle and is the return of that hold's
\* own renewal.
C4_IncrementOnlyWhileActiveByOwnLoop ==
    [][\A h \in DOMAIN holds :
         (\/ holds'[h].cycleCount > holds[h].cycleCount
          \/ holds'[h].totalFeeCents > holds[h].totalFeeCents)
            => /\ holds[h].status = "active"
               /\ holds'[h].cycleCount = holds[h].cycleCount + 1
               /\ pc[h] = "cycling"
               /\ taskCycleCount'[h] = taskCycleCount[h] + 1]_vars

\* The edges of the status machine; pending -> error (the session could not be
\* opened) is granted in addition to the edges the claim lists.
StatusEdges ==
    {<<"pending", "active">>, <<"pending", "error">>,
     <<"active", "buying">>, <<"active", "dropped">>, <<"active", "error">>,
     <<"buying", "bought">>, <<"buying", "active">>}

\* C5: every change of a hold's status follows an edge of the status machine,
\* and no step sets a status back to pending.
C5_StatusFollowsStateMachine ==
    [][\A h \in DOMAIN holds :
         holds'[h].status # holds[h].status
            => /\ <<holds[h].status, holds'[h].status>> \in StatusEdges
               /\ holds'[h].status # "pending"]_vars

\* C6: once a hold's status is bought, dropped or error, no step changes any
\* field of its record.
C6_TerminalRecordIsImmutable ==
    [][\A h \in DOMAIN holds :
         holds[h].status \in Terminal => holds'[h] = holds[h]]_vars

\* C7: when a hold's task comes to the top of the loop with a buy command
\* stored, it stores status buying and leaves the loop without starting a
\* renewal; a task that left on buy stays out and its cycle count is final.
C7_BuyStopsRenewals ==
    [][\A h \in DOMAIN holds :
         /\ (ReachesLoopTop(h) /\ holds[h].command = "buy")
               => (holds'[h].status = "buying" /\ pc'[h] = "exitBuy")
         /\ pc[h] = "exitBuy"
               => /\ pc'[h] = "exitBuy"
                  /\ taskCycleCount'[h] = taskCycleCount[h]
                  /\ holds'[h].cycleCount = holds[h].cycleCount]_vars

\* C7 witness: the loop exited on buy after at least two completed cycles.
C7_Witness ==
    \E h \in DOMAIN holds :
        /\ pc[h] = "exitBuy"
        /\ holds[h].status = "buying"
        /\ holds[h].cycleCount >= 2

\* C8: a hold whose loop exited into buying does not stay in buying forever
\* (it is to become bought, or active again with renewals resumed).
C8_BuyingResolves ==
    \A h \in HoldIds :
        (StatusOf(h) = "buying" /\ pc[h] = "exitBuy") ~> (StatusOf(h) # "buying")

\* C9: a renewal attempt that fails with a fatal error stores status error and
\* ends the loop at once, with neither a pause nor a recovery attempt.
C9_FatalErrorFailsDirectly ==
    [][\A h \in DOMAIN holds :
         (pc[h] = "cycling" /\ err'[h] = "fatal")
            => (holds'[h].status = "error" /\ pc'[h] \in Ended)]_vars

\* C10: a failed renewal attempt adds one to consecutiveErrors and leaves the
\* record unchanged; recovery starts exactly when the count reaches 3, below
\* that the task pauses and then retries (no command pending) with the record
\* unchanged; a successful recovery resets the count to 0 and, no command
\* pending, the task cycles on with the record, and so an active status,
\* unchanged; a failed recovery stores status error and ends the loop.
C10_ThirdErrorTriggersRecovery ==
    [][\A h \in DOMAIN holds :
         /\ (pc[h] = "cycling" /\ pc'[h] \in {"pausing", "recovering"})
               => /\ consecutiveErrors'[h] = consecutiveErrors[h] + 1
                  /\ (pc'[h] = "recovering") <=> (consecutiveErrors'[h] = 3)
                  /\ holds'[h] = holds[h]
         /\ (pc[h] = "cycling" /\ pc'[h] # "cycling")
               => \/ pc'[h] \in {"pausing", "recovering"}
                  \/ taskCycleCount'[h] = taskCycleCount[h] + 1
         /\ pc[h] = "pausing"
               => /\ consecutiveErrors[h] \in {1, 2}
                  /\ consecutiveErrors'[h] = consecutiveErrors[h]
                  /\ (pc'[h] # "pausing" /\ holds[h].command = "null")
                        => (pc'[h] = "cycling" /\ holds'[h] = holds[h])
         /\ (pc[h] = "recovering" /\ pc'[h] # "recovering")
               => \/ /\ pc'[h] = "exitRecoveryFailed"
                     /\ holds'[h].status = "error"
                  \/ /\ pc'[h] # "exitRecoveryFailed"
                     /\ consecutiveErrors'[h] = 0
                     /\ holds[h].command = "null"
                           => (pc'[h] = "cycling" /\ holds'[h] = holds[h])]_vars

\* C10 witness: a hold's third consecutive error led to a recovery that failed.
C10_Witness ==
    \E h \in DOMAIN holds :
        /\ pc[h] = "exitRecoveryFailed"
        /\ consecutiveErrors[h] = 3
        /\ holds[h].status = "error"
        /\ holds[h].cycleCount >= 1

\* C11: from the moment a command is stored for a hold whose task is in its
\* loop, the task applies no renewal result to the record (the command is read
\* again when a renewal returns, before its result is stored) and starts no
\* renewal: the counter and fee stay as they are and no step takes the task
\* into executeOneCycle.
C11_CommandCheckedBeforeAndAfterRenewal ==
    [][\A h \in DOMAIN holds :
         (holds[h].command # "null" /\ pc[h] \in {"cycling", "pausing", "recovering"})
            => /\ holds'[h].cycleCount = holds[h].cycleCount
               /\ holds'[h].totalFeeCents = holds[h].totalFeeCents
               /\ taskCycleCount'[h] = taskCycleCount[h]
               /\ pc'[h] = "cycling" => pc[h] = "cycling"]_vars

\* C12: when the for loop comes to a message whose rowid is at or below
\* lastSeenRowId, the step changes nothing but the loop position: no reply is
\* started, lastSeenRowId, sentTexts, phoneCooldowns, the log of handled
\* messages and the store stay as they are.
C12_SeenMessageIsNoOp ==
    [][(tickPc = "loop" /\ messages[idx].rowid <= lastSeenRowId)
          => /\ tickPc' \in {"loop", "sleeping"}
             /\ UNCHANGED <<lastSeenRowId, sentTexts, phoneCooldowns, reply,
                            handled, chatDb, holdVars>>]_vars

\* C12 witness: a message taken as inbound in an earlier tick, whose reply
\* could not be sent (so no cooldown would stop it), was delivered again in
\* this tick and passed over.
C12_Witness ==
    /\ tickPc = "loop"
    /\ idx > 1
    /\ \E j \in 1..(idx - 1) :
         /\ messages[j].rowid <= lastSeenRowId
         /\ normalizePhone(messages[j].sender) \notin DOMAIN phoneCooldowns
         /\ \E k \in 1..Len(handled) :
              /\ handled[k].rowid = messages[j].rowid
              /\ handled[k].result = "inbound"
              /\ handled[k].at < now
    /\ Len(handled) = 1

\* The rowids of the messages the for loop has handled (got past line 271).
HandledRowIds == {handled[k].rowid : k \in 1..Len(handled)}

\* A row no filter of the for loop discards for what it is: a fan's text.
IsFanText(row) ==
    /\ row.sender # KYD_2FA_SENDER
    /\ ~trimIsEmpty(row.text)
    /\ ~startsWithBotPrefix(row.text)

\* C13: every fan text in chat.db at or below lastSeenRowId has been handled
\* (taken as inbound or throttled), and no row is handled twice: no message is
\* passed over because a row with a larger rowid was handled before it.
C13_EveryMessageHandledExactlyOnce ==
    /\ \A i \in 1..Len(chatDb) :
         (IsFanText(chatDb[i]) /\ chatDb[i].rowid <= lastSeenRowId)
            => chatDb[i].rowid \in HandledRowIds
    /\ \A k, l \in 1..Len(handled) :
         handled[k].rowid = handled[l].rowid => k = l

\* C14: lastSeenRowId never decreases; while a message is being processed
\* (its reply awaited from the agent or on its way out) lastSeenRowId is
\* already at or above its rowid; and the rowids of the handled messages rise
\* strictly, so whatever happens to a message, no row at or below it is handled
\* in a later tick.
C14_HighWaterMarkRaisedFirst ==
    /\ [][lastSeenRowId' >= lastSeenRowId]_vars
    /\ [](tickPc \in {"agent", "sending"} => messages[idx].rowid <= lastSeenRowId)
    /\ [](\A k, l \in 1..Len(handled) :
            k < l => handled[k].rowid < handled[l].rowid)
    /\ [](\A k \in 1..Len(handled) : handled[k].rowid <= lastSeenRowId)

\* C14 witness: the reply to the one message taken as inbound could not be
\* sent (nothing in sentTexts), later ticks have run to their end, and the
\* message was not handled again.
C14_Witness ==
    /\ tickPc = "sleeping"
    /\ Len(chatDb) = 1
    /\ Len(handled) = 1
    /\ handled[1].result = "inbound"
    /\ handled[1].rowid = lastSeenRowId
    /\ sentTexts = << >>
    /\ clock >= handled[1].at + 2 * POLL_INTERVAL_MS

\* The times (tick now) at which messages of this sender were taken as inbound.
AcceptedAt(sender) ==
    {handled[k].at : k \in {l \in 1..Len(handled) :
                              /\ handled[l].result = "inbound"
                              /\ normalizePhone(handled[l].sender) = normalizePhone(sender)}}

\* The sender's latest message taken as inbound was answered: the cooldown
\* stamp is not older than that message's tick.
LastAcceptedWasAnswered(sender) ==
    /\ AcceptedAt(sender) # {}
    /\ normalizePhone(sender) \in DOMAIN phoneCooldowns
    /\ \A t \in AcceptedAt(sender) : t <= phoneCooldowns[normalizePhone(sender)]

\* C15: a message that no other filter discards, handled t ms after the tick
\* that accepted and answered the sender's previous message, is throttled when
\* t is 5 s or less and is accepted when t is 11 s or more.
C15_CooldownWindow ==
    [][(/\ tickPc = "loop"
        /\ SkipReason(messages[idx]) \in {"cooldown", "inbound"}
        /\ LastAcceptedWasAnswered(messages[idx].sender))
          => \A t \in AcceptedAt(messages[idx].sender) :
               (\A u \in AcceptedAt(messages[idx].sender) : u <= t)
                  => /\ now - t <= 5000 => tickPc' # "agent"
                     /\ now - t >= 11000 => tickPc' = "agent"]_vars

\* C16: a step changes phoneCooldowns only when it is the successful send of
\* the reply to a message that was taken as inbound and that the agent handled
\* (the reply is not the apology for an agent error), and then only the entry
\* of that message's sender changes; discarding a message, whatever the
\* filter, and a failed send leave phoneCooldowns as it is.
C16_CooldownStampedOnSuccessOnly ==
    [][phoneCooldowns' # phoneCooldowns
          => /\ tickPc = "sending"
             /\ Len(handled) > 0
             /\ handled[Len(handled)].rowid = messages[idx].rowid
             /\ handled[Len(handled)].result = "inbound"
             /\ reply # AgentErrorReply
             /\ \A p \in DOMAIN phoneCooldowns' :
                  p # normalizePhone(messages[idx].sender)
                     => (p \in DOMAIN phoneCooldowns
                         /\ phoneCooldowns'[p] = phoneCooldowns[p])]_vars

\* C17: when the for loop comes to a new message whose text is in sentTexts,
\* sent no longer ago than SENT_TEXT_TTL_MS, the message is discarded: no
\* reply is started and sentTexts, phoneCooldowns and the store stay as they
\* are; a new fan text that is not in sentTexts and whose sender is not on
\* cooldown is taken as inbound.
C17_EchoIsNotACommand ==
    [][tickPc = "loop" /\ messages[idx].rowid > lastSeenRowId
          => LET msg == messages[idx] IN
             /\ (/\ msg.text \in DOMAIN sentTexts
                 /\ now - sentTexts[msg.text] <= SENT_TEXT_TTL_MS)
                   => /\ tickPc' \in {"loop", "sleeping"}
                      /\ handled'[Len(handled')].rowid = msg.rowid
                      /\ handled'[Len(handled')].result # "inbound"
                      /\ UNCHANGED <<sentTexts, phoneCooldowns, reply, holdVars>>
             /\ (/\ IsFanText(msg)
                 /\ msg.text \notin DOMAIN sentTexts
                 /\ normalizePhone(msg.sender) \notin DOMAIN phoneCooldowns)
                   => /\ tickPc' = "agent"
                      /\ handled'[Len(handled')].rowid = msg.rowid
                      /\ handled'[Len(handled')].result = "inbound"]_vars

\* C17 witness: a fan's message was taken as inbound and answered, and a later
\* row carrying the text of that reply was discarded as an echo.
C17_Witness ==
    \E i \in 1..Len(chatDb), k, l \in 1..Len(handled) :
        /\ chatDb[i].text \in DOMAIN sentTexts
        /\ handled[l].rowid = chatDb[i].rowid
        /\ handled[l].result \in {"botEcho", "echo"}
        /\ handled[l].at >= sentTexts[chatDb[i].text]
        /\ k < l
        /\ handled[k].result = "inbound"
        /\ handled[k].sender = chatDb[i].sender

\* The holds of this phone that are not in a terminal status.
LiveHoldsOf(phone) ==
    {h \in DOMAIN holds : holds[h].fanPhone = phone /\ holds[h].status \notin Terminal}

\* C18: a step in which handleInboundSMS routes BUY or DROP from a phone
\* leaves the command field of every hold in a terminal status as it was and,
\* when the phone has a hold that is not terminal, stores the command on such
\* a hold of that phone.
C18_CommandGoesToLiveHold ==
    [][\A phone \in Phones, command \in {"buy", "drop"} :
         SmsCommand(phone, command)
            => /\ \A h \in DOMAIN holds :
                    holds[h].status \in Terminal
                       => holds'[h].command = holds[h].command
               /\ LiveHoldsOf(phone) # {}
                    => \E h \in LiveHoldsOf(phone) : holds'[h].command = command]_vars

\* C19: in every state each phone has at most one hold in a status that is
\* not terminal (pending, active, buying).
C19_OneLiveHoldPerRequester ==
    \A phone \in Phones : Cardinality(LiveHoldsOf(phone)) <= 1

C21_RoutingMissHasNoEffect ==
    /\ [](\A h \in HoldIds \ DOMAIN holds, command \in {"buy", "drop"} :
            /\ sendHoldCommandResult(holds, h) = FALSE
            /\ sendHoldCommand(holds, h, command) = holds
            /\ updateHoldStateResult(holds, h, [status |-> "dropped"]) = "null"
            /\ updateHoldState(holds, h, [status |-> "dropped"]) = holds
            /\ updateHoldState(holds, h, [command |-> command, status |-> "buying"]) = holds)
    /\ [][/\ \A phone \in Phones, command \in {"buy", "drop"} :
               (getHoldByPhone(phone) = "null" /\ SmsCommand(phone, command))
                  => holds' = holds
          /\ \A h \in HoldIds \ DOMAIN holds :
               (HttpDrop(h) \/ HttpBuy(h)) => holds' = holds]_vars

\* C21 witness: the store holds one hold, created without a phone and already
\* cycling; the other id is unknown and phone p1 has no hold, so a command for
\* either is a miss.
C21_Witness ==
    /\ DOMAIN holds = {"h1"}
    /\ holds["h1"].cycleCount >= 1
    /\ getHoldByPhone("p1") = "null"
    /\ sendHoldCommandResult(holds, "h2") = FALSE

\* C22: a failure while one message is handled stays inside the tick: when
\* processMessage has settled, thrown or not, a reply is ready and is sent;
\* when sendMessage has settled, rejected or not, the for loop goes on with
\* the next message of the same batch, or the tick ends when that was the last
\* one; and a sleeping loop can always start its next tick.
C22_ErrorsStayInsideTick ==
    /\ [][/\ (tickPc = "agent" /\ tickPc' # "agent")
               => /\ tickPc' = "sending"
                  /\ reply' # << >>
                  /\ idx' = idx
                  /\ messages' = messages
          /\ (tickPc = "sending" /\ tickPc' # "sending")
               => IF idx < Len(messages)
                  THEN /\ tickPc' = "loop"
                       /\ idx' = idx + 1
                       /\ messages' = messages
                  ELSE tickPc' = "sleeping"]_vars
    /\ [](tickPc \in {"sleeping", "loop", "agent", "sending"})
    /\ []((tickPc = "sleeping" /\ clock + POLL_INTERVAL_MS <= MaxClock)
             => ENABLED (TickStart /\ UNCHANGED <<holdVars, sessionVars, helperVars>>))

\* C22 witness: the first message of a batch of two was taken as inbound, its
\* reply could not be sent (nothing is in sentTexts), and the for loop stands
\* at the second message of the same tick.
C22_Witness ==
    /\ tickPc = "loop"
    /\ idx = 2
    /\ Len(messages) = 2
    /\ sentTexts = << >>
    /\ \E k \in 1..Len(handled) :
         /\ handled[k].rowid = messages[1].rowid
         /\ handled[k].result = "inbound"
         /\ handled[k].at = now

\* C28: whenever the loop is between two ticks, no entry of sentTexts is older
\* than SENT_TEXT_TTL_MS and no entry of phoneCooldowns older than COOLDOWN_MS.
C28_CachesHoldNoExpiredEntry ==
    tickPc = "sleeping"
       => /\ \A text \in DOMAIN sentTexts : clock - sentTexts[text] <= SENT_TEXT_TTL_MS
          /\ \A phone \in DOMAIN phoneCooldowns :
               clock - phoneCooldowns[phone] <= COOLDOWN_MS

\* This step is a step of a's running task: the task was suspended at an await
\* and its position or one of its locals changes.
IsTaskStepOf(a) ==
    /\ pc[a] \in Awaiting
    /\ <<pc'[a], taskCycleCount'[a], consecutiveErrors'[a], err'[a]>>
          # <<pc[a], taskCycleCount[a], consecutiveErrors[a], err[a]>>

\* C23: a step of hold a's task (a renewal, an error, a pause, a recovery or
\* its failure, an exit) leaves every other hold b as it was: b's record, the
\* position of b's task and b's counters are unchanged, so the steps b's task
\* can take next are the same; and the renewal b's task then completes stores
\* b's own next cycle count and fee whatever a's record says.
C23_TaskOfOneHoldLeavesOthersAlone ==
    [][\A a \in HoldIds, b \in DOMAIN holds :
         (a # b /\ IsTaskStepOf(a))
            => /\ holds'[b] = holds[b]
               /\ pc'[b] = pc[b]
               /\ taskCycleCount'[b] = taskCycleCount[b]
               /\ consecutiveErrors'[b] = consecutiveErrors[b]
               /\ err'[b] = err[b]
               /\ (pc[b] = "cycling" /\ taskCycleCount[b] < MaxCycles)
                     => ENABLED (CycleSuccess(b) /\ UNCHANGED <<sessionVars, smsVars, helperVars>>)]_vars

\* C23 witness: one hold's recovery has failed (status error, task out of the
\* loop) while the other hold is active with renewals on its record and its
\* next renewal in flight.
C23_Witness ==
    \E a \in DOMAIN holds, b \in DOMAIN holds :
        /\ a # b
        /\ pc[a] = "exitRecoveryFailed"
        /\ holds[a].status = "error"
        /\ pc[b] = "cycling"
        /\ holds[b].status = "active"
        /\ holds[b].cycleCount >= 1

\* C24: at most one browser instance is live at any time, and every task that
\* has been given the shared browser has been given the one sharedBrowser
\* holds.
C24_OneSharedBrowser ==
    /\ Cardinality(liveBrowsers) <= 1
    /\ \A h \in HoldIds : browserOf[h] # 0 => browserOf[h] = sharedBrowser

\* C25: a hold whose task is in its loop (a renewal in flight, pausing or
\* recovering) runs on a session that has been logged in: loginToKYD has
\* returned on a page of that hold's own context.
C25_SessionAuthenticatedBeforeUse ==
    \A h \in HoldIds :
        pc[h] \in {"cycling", "pausing", "recovering"} => sessionAuth[h]

\* C26: a task that has left runHoldCycle has had its context's close settled
\* (there is no context only when newContext itself threw); a context once
\* closed is not touched again; the finally block leaves the store as it is
\* whether the close resolved or rejected, so the step that ends a task stores
\* the status of its exit (dropped, buying, error) and nothing else; and
\* closing the shared browser twice comes to the same as closing it once.
C26_SessionClosedWhenTaskEnds ==
    /\ [](\A h \in HoldIds :
            pc[h] \in Ended
               => \/ context[h] \in CloseOutcomes
                  \/ pc[h] = "exitOpenFailed" /\ context[h] = "none")
    /\ [](\A h \in DOMAIN holds, outcome \in CloseOutcomes :
            finallyClose(holds, h, outcome) = holds)
    /\ [](LET once == closeSharedBrowser(sharedBrowser, liveBrowsers) IN
            /\ closeSharedBrowser(once.shared, once.live) = once
            /\ once.shared = 0
            /\ sharedBrowser \notin once.live)
    /\ [][\A h \in DOMAIN holds :
            /\ context[h] \in CloseOutcomes => context'[h] = context[h]
            /\ (pc[h] \notin Ended /\ pc'[h] \in Ended)
                  => holds'[h].status =
                        CASE pc'[h] = "exitDrop" -> "dropped"
                          [] pc'[h] = "exitBuy" -> "buying"
                          [] OTHER -> "error"]_vars

\* C26 witness: one hold was released after a renewal and the close of its
\* context was rejected, its status is dropped; the other hold's recovery
\* failed and its context is closed.
C26_Witness ==
    \E a \in DOMAIN holds, b \in DOMAIN holds :
        /\ pc[a] = "exitDrop"
        /\ context[a] = "closeFailed"
        /\ holds[a].status = "dropped"
        /\ holds[a].cycleCount >= 1
        /\ pc[b] = "exitRecoveryFailed"
        /\ context[b] = "closed"
        /\ holds[b].status = "error"

\* C27: no browser instance exists before a first hold has asked for one, and
\* once the process has exited on SIGTERM or SIGINT no browser instance the
\* tasks were using is left live.
C27_BrowserLazyAndClosedOnShutdown ==
    /\ liveBrowsers # {} => holdOrder # << >>
    /\ process = "exited" => liveBrowsers = {}

\* C29: the step in which recoverPage throws because the OTP timed out stores
\* status error and takes the task out of its loop; from then on the task
\* stays out of the loop and the hold is never active again.
C29_OtpTimeoutFailsRecovery ==
    /\ [][\A h \in DOMAIN holds :
            (/\ pc[h] = "recovering"
             /\ recoveryErr[h] # "otpTimeout"
             /\ recoveryErr'[h] = "otpTimeout")
               => /\ holds'[h].status = "error"
                  /\ pc'[h] = "exitRecoveryFailed"]_vars
    /\ [](\A h \in DOMAIN holds :
            recoveryErr[h] = "otpTimeout"
               => /\ pc[h] = "exitRecoveryFailed"
                  /\ holds[h].status # "active")

\* C29 witness: a hold with renewals on its record went into recovery after
\* the login had expired, the OTP timed out, and the hold is in status error
\* with its task out of the loop.
C29_Witness ==
    \E h \in DOMAIN holds :
        /\ recoveryErr[h] = "otpTimeout"
        /\ pc[h] = "exitRecoveryFailed"
        /\ holds[h].status = "error"
        /\ holds[h].cycleCount >= 1
        /\ authExpired

\* C30: a step that creates a hold adds a key the store did not have and
\* leaves every record the store already had as it was.
C30_HoldIdsUniqueNeverReused ==
    [][\A h \in HoldIds, phone \in Phones \cup {NoPhone} :
          StartHold(h, phone)
             => /\ h \notin DOMAIN holds
                /\ \A g \in DOMAIN holds : holds'[g] = holds[g]]_vars

\* The API calls made for phone in the hour that starts at w.
ApiCallsInHourFrom(phone, w) ==
    {i \in 1..Len(apiCalls[phone]) :
        w <= apiCalls[phone][i] /\ apiCalls[phone][i] < w + RATE_WINDOW_MS}

\* The API calls made for phone in the hour that ends now.
ApiCallsInHourBefore(phone) ==
    {i \in 1..Len(apiCalls[phone]) : agentClock - apiCalls[phone][i] < RATE_WINDOW_MS}

\* C31: in no hour are more than RATE_LIMIT API calls made for one phone, and
\* a request made when the hour before it already holds RATE_LIMIT calls for
\* its phone returns the rate-limit text and makes no API call.
C31_RateLimitPerPhonePerHour ==
    /\ [](\A phone \in AgentPhones : \A i \in 1..Len(apiCalls[phone]) :
            Cardinality(ApiCallsInHourFrom(phone, apiCalls[phone][i])) <= RATE_LIMIT)
    /\ [](\A phone \in AgentPhones, text \in AgentTexts, api \in ApiOutcomes :
            (~isBlocked(text) /\ Cardinality(ApiCallsInHourBefore(phone)) >= RATE_LIMIT)
               => processMessageReply(phone, text, api) = RATE_LIMIT_MSG)
    /\ [][\A phone \in AgentPhones :
            Cardinality(ApiCallsInHourBefore(phone)) >= RATE_LIMIT
               => apiCalls'[phone] = apiCalls[phone]]_vars

\* C31 witness: a phone has RATE_LIMIT API calls in the running hour, its
\* next request was answered with the rate-limit text, and the other phone
\* has had a call let through.
C31_Witness ==
    \E phone \in AgentPhones, other \in AgentPhones :
        /\ other # phone
        /\ Len(callsInWindow(rateLimitMap, phone, agentClock)) = RATE_LIMIT
        /\ Len(apiCalls[phone]) = RATE_LIMIT
        /\ agentReply = RATE_LIMIT_MSG
        /\ Len(apiCalls[other]) > 0

\* Everything appendHistory was given for a phone with n exchanges, in order.
Transcript(n) ==
    [i \in 1..(2 * n) |->
        [role |-> IF i % 2 = 1 THEN "user" ELSE "assistant", turn |-> (i + 1) \div 2]]

\* C32: the stored history of a phone never has more than MAX_HISTORY
\* entries, and it is the last entries appended for that phone, in the order
\* they were appended.
C32_HistoryIsLastTenInOrder ==
    \A phone \in AgentPhones :
        /\ Len(getHistory(historyMap, phone)) <= MAX_HISTORY
        /\ getHistory(historyMap, phone)
             = sliceLast(Transcript(turns[phone]), MAX_HISTORY)

\* C32 witness: a phone has had more exchanges than the history holds, so
\* entries have been dropped from the front.
C32_Witness ==
    \E phone \in AgentPhones :
        /\ turns[phone] * 2 > MAX_HISTORY + 2
        /\ Len(historyMap[phone]) = MAX_HISTORY
        /\ historyMap[phone][1].turn > 1
        /\ historyMap[phone][MAX_HISTORY] = [role |-> "assistant", turn |-> turns[phone]]

\* C33: a renewal that ends with the transient error of a timed-out wait adds
\* one to the hold's consecutive-error count and leaves its record, status
\* included, as it was; a renewal that succeeds sets the count to zero; the
\* count changes in no other way than by one up or to zero, so a task goes
\* into recovery exactly when MAX_RETRIES renewals in a row have failed.
C33_TimeoutCountsOnceSuccessResets ==
    [][\A h \in DOMAIN holds :
         /\ (pc[h] = "cycling" /\ err[h] = "none" /\ err'[h] = "transient")
               => /\ consecutiveErrors'[h] = consecutiveErrors[h] + 1
                  /\ holds'[h] = holds[h]
         /\ taskCycleCount'[h] = taskCycleCount[h] + 1
               => consecutiveErrors'[h] = 0
         /\ consecutiveErrors'[h] # consecutiveErrors[h]
               => \/ consecutiveErrors'[h] = 0
                  \/ /\ consecutiveErrors'[h] = consecutiveErrors[h] + 1
                     /\ pc[h] = "cycling"
                     /\ err'[h] \in ErrorKinds
         /\ (pc[h] # "recovering" /\ pc'[h] = "recovering")
               => consecutiveErrors'[h] = MAX_RETRIES]_vars

\* C33 witness: an active hold with renewals on its record is paused after a
\* second timed-out wait in a row, one short of recovery.
C33_Witness ==
    \E h \in DOMAIN holds :
        /\ pc[h] = "pausing"
        /\ err[h] = "transient"
        /\ consecutiveErrors[h] = MAX_RETRIES - 1
        /\ holds[h].status = "active"
        /\ holds[h].cycleCount >= 2

\* C34: when a task whose hold was given a command while it was still opening
\* its session gets through the opening, its first pass through the top of
\* the loop acts on that command: it leaves the loop by the drop exit or the
\* buy exit and starts no renewal.
C34_CommandBeforeActivationIsActedOn ==
    [][\A h \in DOMAIN holds :
         (/\ pc[h] = "opening"
          /\ holds[h].command \in {"buy", "drop"}
          /\ pc'[h] \notin {"opening", "exitOpenFailed"})
            => \/ holds[h].command = "drop" /\ pc'[h] = "exitDrop"
               \/ holds[h].command = "buy" /\ pc'[h] = "exitBuy"]_vars

\* A row the for loop discards for what it is: sent by the 2FA short code,
\* blank, starting with the bot prefix, or equal to a text in sentTexts.
IsDiscarded(row) ==
    \/ row.sender = KYD_2FA_SENDER
    \/ trimIsEmpty(row.text)
    \/ startsWithBotPrefix(row.text)
    \/ row.text \in DOMAIN sentTexts

\* C35: the pass of the for loop over a row above lastSeenRowId that is a
\* 2FA code, blank or an echo raises lastSeenRowId to at least its rowid, goes
\* on to the next row or to the sleep without calling the agent or sending
\* anything, and leaves the caches and the store as they were; such a row is
\* at or below lastSeenRowId ever after and is handled once only.
C35_DiscardedRowOnlyRaisesMark ==
    /\ [][(tickPc = "loop" /\ messages[idx].rowid > lastSeenRowId
                           /\ IsDiscarded(messages[idx]))
            => /\ lastSeenRowId' >= messages[idx].rowid
               /\ tickPc' \in {"loop", "sleeping"}
               /\ handled'[Len(handled')].result \in {"2fa", "blank", "botEcho", "echo"}
               /\ UNCHANGED <<sentTexts, phoneCooldowns, reply, chatDb, holdVars>>]_vars
    /\ [](\A k \in 1..Len(handled) :
            handled[k].result \in {"2fa", "blank", "botEcho", "echo"}
               => /\ handled[k].rowid <= lastSeenRowId
                  /\ \A l \in 1..Len(handled) :
                       handled[l].rowid = handled[k].rowid => l = k)

\* C35 witness: two rows were discarded for different reasons, nothing was
\* sent, and later ticks have read them again without handling them.
C35_Witness ==
    /\ tickPc = "sleeping"
    /\ Len(chatDb) = 2
    /\ Len(handled) = 2
    /\ handled[1].result \in {"2fa", "blank", "botEcho"}
    /\ handled[2].result \in {"2fa", "blank", "botEcho"}
    /\ handled[1].result # handled[2].result
    /\ lastSeenRowId = 2
    /\ sentTexts = << >>
    /\ phoneCooldowns = << >>
    /\ clock >= handled[2].at + 2 * POLL_INTERVAL_MS

\* C36: a row above lastSeenRowId that the for loop discards while its text
\* is in sentTexts comes from a sender the loop has sent a text to: a text
\* sent to one sender never has another sender's row of the same text
\* discarded.
C36_EchoSuppressionPerSender ==
    [][(/\ tickPc = "loop"
        /\ messages[idx].rowid > lastSeenRowId
        /\ messages[idx].text \in DOMAIN sentTexts
        /\ tickPc' \in {"loop", "sleeping"})
          => normalizePhone(messages[idx].sender) \in DOMAIN phoneCooldowns]_vars

\* C37: every text the poll loop can send (what processMessage returns, the
\* apology for a failed agent call, the demo reply) starts with the bot
\* prefix, and so does the reply on its way out and every text in sentTexts;
\* a row above lastSeenRowId whose text starts with the prefix is discarded
\* whatever sentTexts holds: no agent call, no reply.
C37_RepliesCarryPrefixAndAreNeverAnswered ==
    /\ [](\A r \in ProcessMessageReplies \cup {AgentErrorReply, EggyReply} :
            startsWithBotPrefix(r))
    /\ [](tickPc = "sending"
            => /\ reply \in ProcessMessageReplies \cup {AgentErrorReply, EggyReply}
               /\ startsWithBotPrefix(reply))
    /\ [](\A text \in DOMAIN sentTexts : startsWithBotPrefix(text))
    /\ [][(/\ tickPc = "loop"
           /\ messages[idx].rowid > lastSeenRowId
           /\ messages[idx].sender # KYD_2FA_SENDER
           /\ startsWithBotPrefix(messages[idx].text))
             => /\ tickPc' \in {"loop", "sleeping"}
                /\ handled'[Len(handled')].rowid = messages[idx].rowid
                /\ handled'[Len(handled')].result = "botEcho"
                /\ UNCHANGED <<reply, sentTexts, phoneCooldowns>>]_vars

\* C37 witness: a fan's message was answered but the send failed, so nothing
\* is in sentTexts; the reply then came in as a row of that fan's and was
\* discarded by the prefix guard.
C37_Witness ==
    /\ Len(handled) = 2
    /\ handled[1].result = "inbound"
    /\ handled[2].result = "botEcho"
    /\ handled[2].sender = handled[1].sender
    /\ sentTexts = << >>
    /\ tickPc = "sleeping"

\* A getLatestOTP call is over.
OtpOver == otpPc \in {"returned", "timedOut", "dbError"}

\* C38 as stated: a code getLatestOTP returns comes from a row dated after
\* the marker; a call ends, and it ends in one of two ways only, with a code
\* or with the time-out error, the latter not before timeoutMs has passed.
C38_OtpAfterMarkerAndTerminates ==
    /\ [](otpPc = "returned"
            => /\ chatDbDateToUnix(otpResult.date) > otpMarker
               /\ parseOTP(otpResult.text) # "null")
    /\ [](otpPc = "timedOut" => otpClock - otpStart >= otpTimeout)
    /\ [](otpPc \in {"idle", "polling", "returned", "timedOut"})
    /\ (otpPc = "polling" ~> otpPc \in {"returned", "timedOut"})

\* C38 amended: a code getLatestOTP returns comes from a row dated after the
\* marker; a call ends, and it ends in one of three ways, with a code, with
\* the time-out error once timeoutMs has passed, or with the error of a read
\* of chat.db that it lets through.
C38_OtpAfterMarkerAndTerminatesOrDbError ==
    /\ [](otpPc = "returned"
            => /\ chatDbDateToUnix(otpResult.date) > otpMarker
               /\ parseOTP(otpResult.text) # "null")
    /\ [](otpPc = "timedOut" => otpClock - otpStart >= otpTimeout)
    /\ [](otpPc \in {"idle", "polling", "returned", "timedOut", "dbError"})
    /\ (otpPc = "polling" ~> OtpOver)

\* C38 witness: the call was given a marker, a row dated in the second of
\* the marker carries a code and was not taken, and the call timed out.
C38_Witness ==
    /\ otpPc = "timedOut"
    /\ otpMarker # 0
    /\ otpClock - otpStart >= otpTimeout
    /\ otpDb # << >>
    /\ chatDbDateToUnix(otpDb[Len(otpDb)].date) = otpMarker
    /\ parseOTP(otpDb[Len(otpDb)].text) # "null"

----------------------------------------------------------------------------
\* routes.ts, GET /hold/:id/status and GET /holds

\* (totalFeeCents / 100).toFixed(2): dollars and two digits of cents.
feeDollars(state) ==
    [dollars |-> state.totalFeeCents \div 100, cents |-> state.totalFeeCents % 100]

\* Mutant of sanitized: the phone number stays in the body.
sanitizedEmailOnly(state) ==
    [f \in DOMAIN state \ {"fanEmail"} |-> state[f]]

\* { ...state, fanPhone: undefined, fanEmail: undefined } as res.json writes
\* it: a property whose value is undefined is left out of the body.
sanitized(state) ==
    [f \in DOMAIN state \ {"fanPhone", "fanEmail"} |-> state[f]]

\* The body of GET /hold/:id/status; getHoldState gives null for an id the
\* Map does not hold.
holdStatusResponse(store, h) ==
    IF h \notin DOMAIN store
    THEN [code |-> 404, success |-> FALSE, error |-> "Hold not found"]
    ELSE [code |-> 200, success |-> TRUE,
          hold |-> [state |-> sanitized(store[h]), feeDollars |-> feeDollars(store[h])]]

\* The body of GET /holds.
holdsResponse(store, order) ==
    LET active == getActiveHolds(store, order) IN
    [success |-> TRUE,
     holds |-> [i \in 1..Len(active) |->
                  [state |-> sanitized(store[active[i]]),
                   feeDollars |-> feeDollars(store[active[i]])]],
     count |-> Len(active)]

\* The phone number and e-mail address a stored hold can carry.
Contacts == (Phones \cup {NoPhone}) \X (Emails \cup {NoEmail})

\* The store with the given phone number and e-mail address in each hold and
\* every other field as it is.
StoreWithContacts(contactOf) ==
    [h \in DOMAIN holds |->
        [f \in DOMAIN holds[h] \cup {"fanEmail"} |->
            IF f = "fanPhone" THEN contactOf[h][1]
            ELSE IF f = "fanEmail" THEN contactOf[h][2]
            ELSE holds[h][f]]]

\* The bodies of GET /hold/:id/status, for every id, and of GET /holds.
Responses(store) ==
    <<[id \in HoldIds |-> holdStatusResponse(store, id)],
      holdsResponse(store, holdOrder)>>

\* C39: two stores that differ only in the phone numbers and the e-mail
\* addresses of their holds give the same body of GET /hold/:id/status, for
\* every id, and the same body of GET /holds.
C39_ResponsesIndependentOfContact ==
    \A contactOf \in [DOMAIN holds -> Contacts] :
       Responses(StoreWithContacts(contactOf))
          = Responses(StoreWithContacts([h \in DOMAIN holds |->
                                            <<holds[h].fanPhone, NoEmail>>]))

\* C39 witness: two holds, the first active and of a requester with a phone
\* number, the second not listed.
C39_Witness ==
    /\ Len(holdOrder) = 2
    /\ holds[holdOrder[1]].fanPhone \in Phones
    /\ holds[holdOrder[1]].status = "active"
    /\ holds[holdOrder[1]].totalFeeCents > 0
    /\ holds[holdOrder[2]].status \in Terminal
    /\ Len(getActiveHolds(holds, holdOrder)) = 1

\* The actions of a ParsedCommand.
CommandActions == {"hold", "buy", "drop", "status", "list", "help"}

\* A hold request in the alternative order: hold, an event that does not
\* start with a number, a number.
IsAltOrderHold(text) ==
    /\ Len(text) >= 3
    /\ toLowerCase(text[1]) = "hold"
    /\ isDigits(text[Len(text)])
    /\ ~isDigits(text[2])

\* C40: parseCommand gives every text one action, and a hold request in the
\* order 'hold <event> <qty>' gives the action hold with quantity <qty> and
\* event query <event>, as 'hold <qty> <event>' does.
C40_ParseCommandTotalAndAltOrder ==
    parsed.action # "none" =>
       /\ parsed.action \in CommandActions
       /\ parsed.rawText = parseText
       /\ IsAltOrderHold(parseText) =>
             LET usual == parseCommand(<<"hold", parseText[Len(parseText)]>>
                                          \o SubSeq(parseText, 2, Len(parseText) - 1)) IN
             /\ parsed.action = "hold"
             /\ parsed.quantity = parseInt(parseText[Len(parseText)])
             /\ parsed.eventQuery = SubSeq(lowerOf(parseText), 2, Len(parseText) - 1)
             /\ parsed.quantity = usual.quantity
             /\ parsed.eventQuery = usual.eventQuery

====
